---- MODULE Spec2Model ----
(***************************************************************************)
(* Model of the retrieval core of llmprox: the semantic chunker            *)
(* (app/services/chunker.py), the embedding-backed ranking and the dialog  *)
(* memory (app/services/context_manager.py).                               *)
(*                                                                         *)
(* Text is a sequence of characters.  Time is an integer clock.  Cosine    *)
(* similarities are integers in tenths (10 stands for 1.0).                *)
(***************************************************************************)
EXTENDS Integers, Sequences, FiniteSets, TLC

\* ------------------------------------------------------------------------
\* Bounds of the model
\* ------------------------------------------------------------------------
\* most blank lines an input file of the chunker starts with
MaxBlank == 7
\* most lines that follow them
MaxLines == 3
\* number of characters of the one long line kind
MaxLineTok == 8
\* largest max_chunk_size argument a caller passes to chunk_code
MaxChunkArg == 2

\* number of clock ticks the dialog memory is observed for
MaxTicks == 2
\* most messages appended to the dialog memory
MaxMsgs == 2

\* longest chunk list and longest stored history handed to the ranking
MaxList == 3
\* largest top_k, max_chunks and max_messages argument
MaxK == 3

\* calls of the LLM client in one behaviour
MaxCalls == 2

\* ------------------------------------------------------------------------
\* Program constants (app/core/config.py)
\* ------------------------------------------------------------------------
settings_max_chunk_size == 2000

\* settings.memory_ttl, in seconds
settings_memory_ttl == 3600

\* settings.similarity_threshold (0.7), in tenths
settings_similarity_threshold == 7

\* settings.max_dialog_history
settings_max_dialog_history == 20

\* the score 1.0 given to system messages, in tenths
SystemScore == 10

\* Optional arguments: Python's None is the empty sequence, a value v is <<v>>
None == <<>>

Some(v) == <<v>>

\* `not x` for an optional integer: None and 0 are both falsy
Falsy(o) == o = None \/ o[1] = 0

NL == "\n"

Min(a, b) == IF a <= b THEN a ELSE b

Max(a, b) == IF a >= b THEN a ELSE b

\* ------------------------------------------------------------------------
\* Strings: str.split('\n') and '\n'.join
\* ------------------------------------------------------------------------
\* positions of the newline characters of a text
NLPos(t) == {i \in 1..Len(t) : t[i] = NL}

\* the k-th smallest element of a set of integers (k from 1)
Nth(S, k) == CHOOSE i \in S : Cardinality({j \in S : j < i}) = k - 1

\* mutant: text.splitlines(), which has no empty last line
SplitLines(t) ==
    LET P == NLPos(t)
        n == Cardinality(P)
        from(k) == IF k = 1 THEN 1 ELSE Nth(P, k - 1) + 1
        to(k) == IF k = n + 1 THEN Len(t) ELSE Nth(P, k) - 1
        pieces == [k \in 1..(n + 1) |-> SubSeq(t, from(k), to(k))]
    IN  IF pieces[n + 1] = <<>> THEN SubSeq(pieces, 1, n) ELSE pieces

\* text.split('\n'): always at least one line, the pieces between newlines
Split(t) ==
    LET P == NLPos(t)
        n == Cardinality(P)
        from(k) == IF k = 1 THEN 1 ELSE Nth(P, k - 1) + 1
        to(k) == IF k = n + 1 THEN Len(t) ELSE Nth(P, k) - 1
    IN  [k \in 1..(n + 1) |-> SubSeq(t, from(k), to(k))]

RECURSIVE Join(_)
\* '\n'.join(lines)
Join(ls) ==
    IF Len(ls) = 0 THEN <<>>
    ELSE IF Len(ls) = 1 THEN ls[1]
    ELSE ls[1] \o <<NL>> \o Join(Tail(ls))

\* ------------------------------------------------------------------------
\* The tokenizer (tiktoken cl100k_base, a collaborator): a maximal run of
\* newlines is one token, every other character is a token of its own.
\* ------------------------------------------------------------------------
\* length of the run of newlines a text starts with
RECURSIVE NLRun(_)
NLRun(t) == IF Len(t) > 0 /\ Head(t) = NL THEN 1 + NLRun(Tail(t)) ELSE 0

RECURSIVE Encode(_)
\* tokenizer.encode(text): the sequence of tokens, each the text it stands for
Encode(t) ==
    IF Len(t) = 0 THEN <<>>
    ELSE IF Head(t) = NL
         THEN <<SubSeq(t, 1, NLRun(t))>> \o Encode(SubSeq(t, NLRun(t) + 1, Len(t)))
         ELSE <<<<Head(t)>>>> \o Encode(Tail(t))

RECURSIVE Decode(_)
\* tokenizer.decode(tokens): the concatenation of the tokens' texts
Decode(toks) == IF Len(toks) = 0 THEN <<>> ELSE Head(toks) \o Decode(Tail(toks))

\* SemanticChunker.count_tokens
count_tokens(t) == Len(Encode(t))

\* mutant: a split that drops the last, shorter piece
split_by_tokens_whole_pieces(t, max_tokens) ==
    LET tokens == Encode(t)
        n == Len(tokens) \div max_tokens
    IN  [k \in 1..n |->
            Decode(SubSeq(tokens, (k - 1) * max_tokens + 1, k * max_tokens))]

\* SemanticChunker.split_by_tokens: for i in range(0, len(tokens), max_tokens)
split_by_tokens(t, max_tokens) ==
    LET tokens == Encode(t)
        n == (Len(tokens) + max_tokens - 1) \div max_tokens
    IN  [k \in 1..n |->
            Decode(SubSeq(tokens, (k - 1) * max_tokens + 1,
                          Min(k * max_tokens, Len(tokens))))]

\* ------------------------------------------------------------------------
\* Boundary detection
\* ------------------------------------------------------------------------
\* re.match of one of the language's patterns on a line.  Over the alphabet
\* of the model only the comment patterns can match: '^\s*#\s*.*$' for
\* python and the generic family, none for the javascript family.
Matches(line, lang) ==
    /\ lang \notin {"javascript", "typescript", "jsx", "tsx"}
    /\ Len(line) > 0
    /\ line[1] = "#"

\* sorted(list(set(...))) of a set of integers
SortedSeq(S) == [k \in 1..Cardinality(S) |-> Nth(S, k)]

\* mutant: the boundary list returned as built, without set()
find_semantic_boundaries_as_built(c, lang) ==
    LET lines == Split(c)
    IN  <<0>>
        \o SortedSeq({i - 1 : i \in {j \in 1..Len(lines) : Matches(lines[j], lang)}})
        \o <<Len(lines)>>

\* SemanticChunker.find_semantic_boundaries
find_semantic_boundaries(c, lang) ==
    LET lines == Split(c)
    IN  SortedSeq({0}
                  \cup {i - 1 : i \in {j \in 1..Len(lines) : Matches(lines[j], lang)}}
                  \cup {Len(lines)})

\* ------------------------------------------------------------------------
\* Chunks
\* ------------------------------------------------------------------------
\* hashlib.md5(f"{file_path}:{start_line}:{end_line}"), kept as its preimage
BaseId(fp, s, e) == <<fp, s, e>>

\* SemanticChunker.create_chunk
create_chunk(content, fp, s, e, lang, chunk_id) ==
    [id |-> IF chunk_id = None THEN BaseId(fp, s, e) ELSE chunk_id,
     content |-> content,
     file_path |-> fp,
     start_line |-> s,
     end_line |-> e,
     language |-> lang,
     token_count |-> count_tokens(content),
     line_count |-> e - s + 1]

\* the chunks of segment i (from 1) of chunk_code's loop, lines 98-120
SegmentChunks(c, fp, lang, max_chunk_size, boundaries, i) ==
    LET start_line == boundaries[i]
        end_line == boundaries[i + 1] - 1
        lines == Split(c)
        chunk_content == Join(SubSeq(lines, start_line + 1, end_line + 1))
        token_count == count_tokens(chunk_content)
        sub_chunks == split_by_tokens(chunk_content, max_chunk_size)
        step == Len(lines) \div Len(sub_chunks)
    IN  IF token_count <= max_chunk_size
        THEN <<create_chunk(chunk_content, fp, start_line, end_line, lang, None)>>
        ELSE [j \in 1..Len(sub_chunks) |->
                LET sub_start == start_line + (j - 1) * step
                    sub_end == Min(sub_start + step, end_line)
                IN  create_chunk(sub_chunks[j], fp, sub_start, sub_end, lang, None)]

RECURSIVE SegmentsFrom(_, _, _, _, _, _)
\* the chunk list built by iterations i, i+1, ... of chunk_code's loop
SegmentsFrom(c, fp, lang, max_chunk_size, boundaries, i) ==
    IF i > Len(boundaries) - 1 THEN <<>>
    ELSE SegmentChunks(c, fp, lang, max_chunk_size, boundaries, i)
         \o SegmentsFrom(c, fp, lang, max_chunk_size, boundaries, i + 1)

\* chunk_code up to line 121: the chunks before the overlap pass
Segmentation(c, fp, lang, arg) ==
    LET max_chunk_size == IF Falsy(arg)
                          THEN settings_max_chunk_size ELSE arg[1]
    IN  SegmentsFrom(c, fp, lang, max_chunk_size,
                     find_semantic_boundaries(c, lang), 1)

\* lines 102-103: the text of segment i (from 1)
SegmentContent(c, bs, i) ==
    Join(SubSeq(Split(c), bs[i] + 1, bs[i + 1]))

\* per iteration of chunk_code's loop: the segment's text and its chunks
SegmentTrace(c, fp, lang, arg) ==
    LET max_chunk_size == IF Falsy(arg)
                          THEN settings_max_chunk_size ELSE arg[1]
        bs == find_semantic_boundaries(c, lang)
    IN  [i \in 1..(Len(bs) - 1) |->
            [content |-> SegmentContent(c, bs, i),
             chunks |-> SegmentChunks(c, fp, lang, max_chunk_size, bs, i)]]

\* prev_lines[-overlap_lines:]
LastLines(ls, k) == SubSeq(ls, Max(1, Len(ls) - k + 1), Len(ls))

\* mutant: an overlap pass that lets create_chunk compute the id anew
add_overlap_fresh_id(chunks) ==
    IF Len(chunks) <= 1 THEN chunks
    ELSE [i \in 1..Len(chunks) |->
            IF i = 1 THEN chunks[1]
            ELSE LET chunk == chunks[i]
                     prev_chunk == chunks[i - 1]
                     prev_lines == Split(prev_chunk.content)
                     overlap_lines == Max(1, Len(prev_lines) \div 4)
                     overlap_content == Join(LastLines(prev_lines, overlap_lines))
                     combined_content == overlap_content \o <<NL>> \o chunk.content
                 IN  create_chunk(combined_content, chunk.file_path,
                                  prev_chunk.end_line - overlap_lines + 1,
                                  chunk.end_line, chunk.language, None)]

\* SemanticChunker._add_overlap
add_overlap(chunks) ==
    IF Len(chunks) <= 1 THEN chunks
    ELSE [i \in 1..Len(chunks) |->
            IF i = 1 THEN chunks[1]
            ELSE LET chunk == chunks[i]
                     prev_chunk == chunks[i - 1]
                     prev_lines == Split(prev_chunk.content)
                     overlap_lines == Max(1, Len(prev_lines) \div 4)
                     overlap_content == Join(LastLines(prev_lines, overlap_lines))
                     combined_content == overlap_content \o <<NL>> \o chunk.content
                 IN  IF overlap_lines > 0
                     THEN create_chunk(combined_content, chunk.file_path,
                                       prev_chunk.end_line - overlap_lines + 1,
                                       chunk.end_line, chunk.language,
                                       Append(chunk.id, "_overlap"))
                     ELSE chunk]

\* ------------------------------------------------------------------------
\* State
\* ------------------------------------------------------------------------
VARIABLES
    cpc,          \* chunker: "input" before chunk_code runs, "done" after
    code,         \* chunker: the code argument
    language,     \* chunker: the language argument
    max_arg,      \* chunker: the max_chunk_size argument (None when omitted)
    boundaries,   \* chunker: what find_semantic_boundaries returned
    segs,         \* chunker: per iteration of chunk_code's loop, the segment's
                  \* text and the chunks the iteration appended
    pre_chunks,   \* chunker: chunk_code's list `chunks` before the overlap pass
    out_chunks,   \* chunker: the list chunk_code returns
    sessions,     \* DialogMemory.sessions: session id -> list of messages
    now,          \* the wall clock datetime.now() reads, in seconds
    next_uuid,    \* number of session ids uuid.uuid4() has generated, plus 1
    next_msg,     \* number of messages created so far, plus 1
    appended,     \* history: per session id, every message appended to the
                  \* session since it was last created, in call order
    ret,          \* the last operation: its name, arguments, result
    chunks,       \* the caller's list of CodeChunk objects (embedding mutable)
    cm_cache,     \* ContextManager.embedding_service._embedding_cache
    dm_cache,     \* DialogMemory.embedding_service._embedding_cache
    ecalls,       \* per caller of get_embedding: its position, text and result
    encodes,      \* per text: how often the model has been asked to encode it
    llm,          \* the LLM client and its current call: position, outcome
    requests,     \* the HTTP requests the LLM client has sent, in order
    chat          \* per chat_message request in flight: its position and locals

vars == <<cpc, code, language, max_arg, boundaries, segs, pre_chunks, out_chunks,
          sessions, now, next_uuid, next_msg, appended, ret,
          chunks, cm_cache, dm_cache, ecalls, encodes, llm, requests, chat>>

clientVars == <<ecalls, encodes, llm, requests, chat>>

rankVars == <<chunks, cm_cache, dm_cache>>

memoryVars == <<sessions, now, next_uuid, next_msg, appended, ret>>

chunkerVars == <<cpc, code, language, max_arg, boundaries, segs,
                 pre_chunks, out_chunks>>

\* ------------------------------------------------------------------------
\* The chunker's inputs
\* ------------------------------------------------------------------------
FilePath == "a.py"

LongLine == [k \in 1..MaxLineTok |-> "a"]

\* the lines a file is made of: an empty line, a comment line, a long line
LineKinds == {<<>>, <<"#">>, LongLine}

RECURSIVE LineSeqs(_)
\* all files of exactly n lines, as line lists
LineSeqs(n) ==
    IF n = 0 THEN {<<>>}
    ELSE {Append(ls, l) : ls \in LineSeqs(n - 1), l \in LineKinds}

\* a file: some blank lines, then 1..MaxLines lines
Codes ==
    {Join([k \in 1..e |-> <<>>] \o ls) :
        e \in 0..MaxBlank, ls \in UNION {LineSeqs(n) : n \in 1..MaxLines}}

Languages == {"python", "javascript", "other"}

ChunkArgs == {None} \cup {Some(n) : n \in 0..MaxChunkArg}

ChunkerIdle ==
    /\ cpc = "idle"
    /\ code = <<>>
    /\ language = "python"
    /\ max_arg = None
    /\ boundaries = <<>>
    /\ segs = <<>>
    /\ pre_chunks = <<>>
    /\ out_chunks = <<>>

\* the clock, the id generators and the history before any operation
MemoryIdle ==
    /\ now = 0
    /\ next_uuid = 1
    /\ next_msg = 1
    /\ appended = <<>>
    /\ ret = [op |-> "init"]

\* DialogMemory.__init__: no session
MemoryInit ==
    /\ sessions = <<>>
    /\ MemoryIdle

\* EmbeddingService.__init__ (both instances): empty caches; no chunk list
RankIdle ==
    /\ chunks = <<>>
    /\ cm_cache = <<>>
    /\ dm_cache = <<>>

\* no get_embedding call of its own is in flight
EmbedIdle ==
    /\ ecalls = <<>>
    /\ encodes = <<>>

\* LLMClient.__init__ of the module's client; nothing sent
LlmIdle ==
    /\ llm = [pc |-> "idle", provider |-> "ollama", call |-> 0,
              op |-> "", outcome |-> "", val |-> ""]
    /\ requests = <<>>

\* no chat_message request
ChatIdle == chat = <<>>

ClientsIdle == EmbedIdle /\ LlmIdle /\ ChatIdle

InitChunker ==
    /\ RankIdle
    /\ ClientsIdle
    /\ cpc = "input"
    /\ code \in Codes
    /\ language \in Languages
    /\ max_arg \in ChunkArgs
    /\ boundaries = <<>>
    /\ segs = <<>>
    /\ pre_chunks = <<>>
    /\ out_chunks = <<>>
    /\ MemoryInit

\* SemanticChunker.chunk_code
chunk_code ==
    /\ cpc = "input"
    /\ cpc' = "done"
    /\ boundaries' = find_semantic_boundaries(code, language)
    /\ segs' = SegmentTrace(code, FilePath, language, max_arg)
    /\ pre_chunks' = Segmentation(code, FilePath, language, max_arg)
    /\ out_chunks' = add_overlap(pre_chunks')
    /\ UNCHANGED <<code, language, max_arg>>
    /\ UNCHANGED memoryVars
    /\ UNCHANGED rankVars
    /\ UNCHANGED clientVars

NextChunker == chunk_code

SpecChunker == InitChunker /\ [][NextChunker]_vars

\* ------------------------------------------------------------------------
\* Dialog memory (DialogMemory, ContextManager.add_dialog_context and the
\* clear_session endpoint of app/api/chat.py)
\* ------------------------------------------------------------------------
\* one clock tick: half the time-to-live
TickLen == settings_memory_ttl \div 2

MaxTime == MaxTicks * TickLen

Times == {k * TickLen : k \in 0..MaxTicks}

Roles == {"user", "assistant", "system"}

\* message contents and queries
Texts == {"t0", "t1", "t2"}

\* chunk ids a message can refer to
ChunkIds == {"c1", "c2"}

\* session ids a client makes up; the empty string is one a client can send
ClientIds == {"s1"}

\* the ids uuid.uuid4() hands out, in order: each distinct from every other id
UuidPool == <<"u1", "u2">>

\* str(uuid.uuid4()): the n-th generated id
Uuid(n) == UuidPool[n]

\* mutant: an assignment that leaves sid as the only key of the store
PutAlone(store, sid, msgs) == [x \in {sid} |-> msgs]

\* the store with session sid set to msgs (registered if it was unknown)
Put(store, sid, msgs) ==
    [x \in DOMAIN store \cup {sid} |-> IF x = sid THEN msgs ELSE store[x]]

\* del store[sid]
Del(store, sid) == [x \in DOMAIN store \ {sid} |-> store[x]]

\* `not session_id` for an optional string: None and "" are both falsy
NoId(arg) == arg = None \/ arg[1] = ""

\* mutant: pruning that forgets the exemption of system messages
cleanup_without_system_exemption(msgs, t) ==
    SelectSeq(msgs, LAMBDA msg : msg.timestamp > t - settings_memory_ttl)

\* the list comprehension of DialogMemory._cleanup_old_messages
cleanup_old_messages(msgs, t) ==
    LET cutoff_time == t - settings_memory_ttl
    IN  SelectSeq(msgs, LAMBDA msg : msg.timestamp > cutoff_time \/ msg.role = "system")

\* mutant: add_message that inserts the message at the front of the list
add_message_store_front(store, message, t) ==
    LET session_id == message.session_id
        created == IF session_id \notin DOMAIN store
                   THEN Put(store, session_id, <<>>) ELSE store
        extended == Put(created, session_id, <<message>> \o created[session_id])
    IN  Put(extended, session_id, cleanup_old_messages(extended[session_id], t))

\* the store after DialogMemory.add_message(message) at time t
add_message_store(store, message, t) ==
    LET session_id == message.session_id
        created == IF session_id \notin DOMAIN store
                   THEN Put(store, session_id, <<>>) ELSE store
        extended == Put(created, session_id, Append(created[session_id], message))
    IN  Put(extended, session_id, cleanup_old_messages(extended[session_id], t))

\* the history of appends, extended by one message
Logged(log, message) ==
    LET sid == message.session_id
    IN  Put(log, sid, Append(IF sid \in DOMAIN log THEN log[sid] ELSE <<>>, message))

\* the clock advances
Tick ==
    /\ now < MaxTime
    /\ now' = now + TickLen
    /\ UNCHANGED <<sessions, next_uuid, next_msg, appended, ret>>

\* mutant: get_or_create_session that registers an empty list unconditionally
get_or_create_session_reset(arg) ==
    LET fresh == NoId(arg)
        session_id == IF fresh THEN Uuid(next_uuid) ELSE arg[1]
    IN  /\ fresh => next_uuid <= Len(UuidPool)
        /\ next_uuid' = IF fresh THEN next_uuid + 1 ELSE next_uuid
        /\ sessions' = Put(sessions, session_id, <<>>)
        /\ ret' = [op |-> "get_or_create_session", arg |-> arg, val |-> session_id]
        /\ UNCHANGED <<now, next_msg, appended>>

\* DialogMemory.get_or_create_session
get_or_create_session(arg) ==
    LET fresh == NoId(arg)
        session_id == IF fresh THEN Uuid(next_uuid) ELSE arg[1]
    IN  /\ fresh => next_uuid <= Len(UuidPool)
        /\ next_uuid' = IF fresh THEN next_uuid + 1 ELSE next_uuid
        /\ sessions' = IF session_id \notin DOMAIN sessions
                       THEN Put(sessions, session_id, <<>>) ELSE sessions
        /\ ret' = [op |-> "get_or_create_session", arg |-> arg, val |-> session_id]
        /\ UNCHANGED <<now, next_msg, appended>>

\* DialogMemory.add_message
add_message(message) ==
    /\ next_msg <= MaxMsgs
    /\ next_msg' = next_msg + 1
    /\ sessions' = add_message_store(sessions, message, now)
    /\ appended' = Logged(appended, message)
    /\ ret' = [op |-> "add_message", arg |-> message, val |-> None]
    /\ UNCHANGED <<now, next_uuid>>

\* add_dialog_context whose pruning writes back the list it read before the
\* append
add_dialog_context_stale_write(session_id, role, content, context_chunk_ids) ==
    LET message == [id |-> next_msg,
                    role |-> role,
                    content |-> content,
                    timestamp |-> now,
                    session_id |-> session_id,
                    context_chunks |-> IF context_chunk_ids = None
                                       THEN <<>> ELSE context_chunk_ids]
        created == IF session_id \notin DOMAIN sessions
                   THEN Put(sessions, session_id, <<>>) ELSE sessions
    IN  /\ next_msg <= MaxMsgs
        /\ next_msg' = next_msg + 1
        /\ sessions' = Put(created, session_id,
                           cleanup_old_messages(created[session_id], now))
        /\ appended' = Logged(appended, message)
        /\ ret' = [op |-> "add_dialog_context", arg |-> message, val |-> None]
        /\ UNCHANGED <<now, next_uuid>>

\* ContextManager.add_dialog_context
add_dialog_context(session_id, role, content, context_chunk_ids) ==
    LET message == [id |-> next_msg,
                    role |-> role,
                    content |-> content,
                    timestamp |-> now,
                    session_id |-> session_id,
                    context_chunks |-> IF context_chunk_ids = None
                                       THEN <<>> ELSE context_chunk_ids]
    IN  /\ next_msg <= MaxMsgs
        /\ next_msg' = next_msg + 1
        /\ sessions' = add_message_store(sessions, message, now)
        /\ appended' = Logged(appended, message)
        /\ ret' = [op |-> "add_dialog_context", arg |-> message, val |-> None]
        /\ UNCHANGED <<now, next_uuid>>

\* clear_session (app/api/chat.py)
clear_session(session_id) ==
    /\ sessions' = IF session_id \in DOMAIN sessions
                   THEN Del(sessions, session_id) ELSE sessions
    /\ ret' = [op |-> "clear_session", arg |-> session_id,
               val |-> IF session_id \in DOMAIN sessions
                       THEN "Session cleared" ELSE "Session not found"]
    /\ appended' = IF session_id \in DOMAIN appended
                   THEN Del(appended, session_id) ELSE appended
    /\ UNCHANGED <<now, next_uuid, next_msg>>

\* the session ids a caller can name: made up, or returned by an earlier call
KnownIds == ClientIds \cup DOMAIN sessions

\* the messages a caller of add_message can build
Messages(sid) ==
    [id : {next_msg}, role : {"user", "system"}, content : {"t0"},
     timestamp : {0, now}, session_id : {sid}, context_chunks : {<<>>}]

Init ==
    /\ MemoryInit
    /\ ChunkerIdle
    /\ RankIdle
    /\ ClientsIdle

Next ==
    \/ Tick /\ UNCHANGED <<chunkerVars, rankVars, clientVars>>
    \/ \E arg \in {None, Some("")} \cup {Some(sid) : sid \in KnownIds} :
          get_or_create_session(arg) /\ UNCHANGED <<chunkerVars, rankVars, clientVars>>
    \/ \E sid \in KnownIds : \E message \in Messages(sid) :
          add_message(message) /\ UNCHANGED <<chunkerVars, rankVars, clientVars>>
    \/ \E sid \in KnownIds, role \in {"assistant"}, content \in {"t1"},
          ids \in {None, <<"c1">>} :
          add_dialog_context(sid, role, content, ids)
          /\ UNCHANGED <<chunkerVars, rankVars, clientVars>>
    \/ \E sid \in KnownIds : clear_session(sid) /\ UNCHANGED <<chunkerVars, rankVars, clientVars>>

Spec == Init /\ [][Next]_vars

\* ------------------------------------------------------------------------
\* Python list slices and list.sort
\* ------------------------------------------------------------------------
\* mutant: a slice that keeps one element too many
SliceToInclusive(seq, k) == SubSeq(seq, 1, Min(k + 1, Len(seq)))

\* seq[:k]
SliceTo(seq, k) ==
    IF k >= 0 THEN SubSeq(seq, 1, Min(k, Len(seq)))
    ELSE SubSeq(seq, 1, Max(Len(seq) + k, 0))

\* seq[k:]
SliceFrom(seq, k) ==
    IF k >= 0 THEN SubSeq(seq, Min(k, Len(seq)) + 1, Len(seq))
    ELSE SubSeq(seq, Max(Len(seq) + k, 0) + 1, Len(seq))

\* list.sort: the stable sort of seq, where before[i, j] says that the key
\* of seq[i] orders it before seq[j]; elements neither of which is before the
\* other keep their relative order (this is also what sort(reverse=True) does
\* with equal keys)
StableSort(seq, before) ==
    LET n == Len(seq)
        rank(i) == 1 + Cardinality({j \in 1..n :
                        \/ before[j, i]
                        \/ j < i /\ ~before[i, j]})
    IN  [p \in 1..n |-> seq[CHOOSE i \in 1..n : rank(i) = p]]

\* ------------------------------------------------------------------------
\* EmbeddingService
\* ------------------------------------------------------------------------
\* SentenceTransformer.encode (a collaborator): three texts, embedded as the
\* unit vectors at 0, 45 and 90 degrees, named 0, 1, 2
model_encode(text) == CASE text = "t0" -> 0 [] text = "t1" -> 1 [] OTHER -> 2

\* sklearn's cosine_similarity of two of these vectors, in tenths
cosine_similarity(v, w) ==
    LET d == IF v >= w THEN v - w ELSE w - v
    IN  CASE d = 0 -> 10 [] d = 1 -> 7 [] OTHER -> 0

\* EmbeddingService.get_embedding: the value returned
get_embedding(cache, text) ==
    IF text \in DOMAIN cache THEN cache[text] ELSE model_encode(text)

\* EmbeddingService.get_embedding: the cache after the calls for a set of texts
CacheAfter(cache, texts) ==
    [x \in DOMAIN cache \cup texts |-> get_embedding(cache, x)]

\* EmbeddingService.compute_similarity: the value returned
compute_similarity(cache, text1, text2) ==
    cosine_similarity(get_embedding(cache, text1), get_embedding(cache, text2))

\* find_similar_chunks embedding the query before it looks at the chunk list,
\* and re-embedding every chunk
find_similar_chunks_embedding_all(cache, query, chs, top_k, threshold_arg) ==
    LET threshold == IF Falsy(threshold_arg)
                     THEN settings_similarity_threshold ELSE threshold_arg[1]
        query_embedding == get_embedding(cache, query)
        cache2 == CacheAfter(cache, {query} \cup {chs[i].content : i \in 1..Len(chs)})
        valid_chunks == [i \in 1..Len(chs) |->
            [chs[i] EXCEPT !.embedding = Some(cache2[chs[i].content])]]
        chunk_similarity_pairs == [i \in 1..Len(chs) |->
            [chunk |-> valid_chunks[i],
             score |-> cosine_similarity(query_embedding,
                                         valid_chunks[i].embedding[1])]]
        sorted == StableSort(chunk_similarity_pairs,
            [i \in 1..Len(chs), j \in 1..Len(chs) |->
                chunk_similarity_pairs[i].score > chunk_similarity_pairs[j].score])
        filtered_pairs == SelectSeq(sorted, LAMBDA pr : pr.score >= threshold)
    IN  [val |-> SliceTo(filtered_pairs, top_k),
         chunks |-> valid_chunks,
         cache |-> cache2]

\* EmbeddingService.find_similar_chunks: the list returned (val), the chunk
\* objects afterwards (chunks) and the cache afterwards (cache)
find_similar_chunks(cache, query, chs, top_k, threshold_arg) ==
    LET threshold == IF Falsy(threshold_arg)
                     THEN settings_similarity_threshold ELSE threshold_arg[1]
    IN  IF Len(chs) = 0 THEN [val |-> <<>>, chunks |-> chs, cache |-> cache]
        ELSE
        LET query_embedding == get_embedding(cache, query)
            missing == {chs[i].content : i \in {j \in 1..Len(chs) : chs[j].embedding = None}}
            cache2 == CacheAfter(cache, {query} \cup missing)
            valid_chunks == [i \in 1..Len(chs) |->
                IF chs[i].embedding # None THEN chs[i]
                ELSE [chs[i] EXCEPT !.embedding = Some(cache2[chs[i].content])]]
            chunk_similarity_pairs == [i \in 1..Len(chs) |->
                [chunk |-> valid_chunks[i],
                 score |-> cosine_similarity(query_embedding,
                                             valid_chunks[i].embedding[1])]]
            sorted == StableSort(chunk_similarity_pairs,
                [i \in 1..Len(chs), j \in 1..Len(chs) |->
                    chunk_similarity_pairs[i].score > chunk_similarity_pairs[j].score])
            filtered_pairs == SelectSeq(sorted, LAMBDA pr : pr.score >= threshold)
        IN  [val |-> SliceTo(filtered_pairs, top_k),
             chunks |-> valid_chunks,
             cache |-> cache2]

\* ------------------------------------------------------------------------
\* DialogMemory: reads
\* ------------------------------------------------------------------------
\* DialogMemory._find_relevant_messages: the list returned (val) and the
\* cache of the memory's embedding service afterwards (cache)
find_relevant_messages(cache, query, messages, max_messages) ==
    IF Len(messages) = 0 THEN [val |-> <<>>, cache |-> cache]
    ELSE
    LET scored == {messages[i].content :
                      i \in {j \in 1..Len(messages) : messages[j].role # "system"}}
        message_scores == [i \in 1..Len(messages) |->
            [msg |-> messages[i],
             score |-> IF messages[i].role = "system" THEN SystemScore
                       ELSE compute_similarity(cache, query, messages[i].content)]]
        sorted == StableSort(message_scores,
            [i \in 1..Len(messages), j \in 1..Len(messages) |->
                \/ message_scores[i].score > message_scores[j].score
                \/ /\ message_scores[i].score = message_scores[j].score
                   /\ messages[i].timestamp > messages[j].timestamp])
        top == SliceTo(sorted, max_messages)
        relevant_messages == [i \in 1..Len(top) |-> top[i].msg]
    IN  [val |-> StableSort(relevant_messages,
            [i \in 1..Len(top), j \in 1..Len(top) |->
                relevant_messages[i].timestamp < relevant_messages[j].timestamp]),
         cache |-> IF scored = {} THEN cache
                   ELSE CacheAfter(cache, {query} \cup scored)]

\* get_context_messages reading only the messages the pruning would keep
get_context_messages_hiding_expired(store, cache, session_id, current_query, max_arg_) ==
    LET max_messages == IF Falsy(max_arg_)
                        THEN settings_max_dialog_history ELSE max_arg_[1]
    IN  IF session_id \notin DOMAIN store THEN [val |-> <<>>, cache |-> cache]
        ELSE IF NoId(current_query)
        THEN [val |-> SliceFrom(cleanup_old_messages(store[session_id], now),
                                0 - max_messages),
              cache |-> cache]
        ELSE find_relevant_messages(cache, current_query[1],
                                    cleanup_old_messages(store[session_id], now),
                                    max_messages)

\* DialogMemory.get_context_messages: the list returned (val) and the cache
\* afterwards (cache)
get_context_messages(store, cache, session_id, current_query, max_arg_) ==
    LET max_messages == IF Falsy(max_arg_)
                        THEN settings_max_dialog_history ELSE max_arg_[1]
    IN  IF session_id \notin DOMAIN store THEN [val |-> <<>>, cache |-> cache]
        ELSE IF NoId(current_query)
        THEN [val |-> SliceFrom(store[session_id], 0 - max_messages), cache |-> cache]
        ELSE find_relevant_messages(cache, current_query[1],
                                    store[session_id], max_messages)

\* mutant: the summary of an unknown session is that of an empty one
get_session_summary_unguarded(store, session_id) ==
    [session_id |-> session_id, message_count |-> 0,
     last_activity |-> None, roles |-> {}]

\* DialogMemory.get_session_summary: a dict, {} (the empty function) for an
\* unknown session; roles is list(set(...)), whose order is not determined
get_session_summary(store, session_id) ==
    IF session_id \notin DOMAIN store THEN <<>>
    ELSE LET messages == store[session_id]
         IN  [session_id |-> session_id,
              message_count |-> Len(messages),
              last_activity |-> IF Len(messages) > 0
                                THEN Some(messages[Len(messages)].timestamp)
                                ELSE None,
              roles |-> {messages[i].role : i \in 1..Len(messages)}]

\* the limit parameter's default of the chat history endpoint
DefaultLimit == 50

\* api/chat.py get_chat_history: the response body
get_chat_history(store, session_id, limit) ==
    IF session_id \notin DOMAIN store
    THEN [messages |-> <<>>, session_id |-> session_id]
    ELSE LET messages == store[session_id]
             recent_messages == SliceFrom(messages, 0 - limit)
         IN  [messages |-> [i \in 1..Len(recent_messages) |->
                               [id |-> recent_messages[i].id,
                                role |-> recent_messages[i].role,
                                content |-> recent_messages[i].content,
                                timestamp |-> recent_messages[i].timestamp,
                                context_chunks |-> recent_messages[i].context_chunks]],
              session_id |-> session_id,
              total_messages |-> Len(messages)]

\* ------------------------------------------------------------------------
\* ContextManager.get_relevant_context
\* ------------------------------------------------------------------------
\* mutant: no deduplication, every chunk of the pairs is kept
DedupNothing(pairs, seen_chunks) == [i \in 1..Len(pairs) |-> pairs[i].chunk]

RECURSIVE Dedup(_, _)
\* lines 245-251: the chunks of the pairs, first occurrence of every id only
Dedup(pairs, seen_chunks) ==
    IF Len(pairs) = 0 THEN <<>>
    ELSE IF Head(pairs).chunk.id \in seen_chunks
         THEN Dedup(Tail(pairs), seen_chunks)
         ELSE <<Head(pairs).chunk>>
              \o Dedup(Tail(pairs), seen_chunks \cup {Head(pairs).chunk.id})

\* mutant: the dialog-derived ranking is put before the code ranking
get_relevant_context_dialog_first(store, cmc, dmc, query, code_chunks, session_arg, max_chunks) ==
    LET first == find_similar_chunks(cmc, query, code_chunks, max_chunks, None)
        with_session == ~NoId(session_arg)
        ctx == IF with_session
               THEN get_context_messages(store, dmc, session_arg[1], Some(query), None)
               ELSE [val |-> <<>>, cache |-> dmc]
        dialog_chunk_ids == UNION {{ctx.val[i].context_chunks[k] :
                                      k \in 1..Len(ctx.val[i].context_chunks)} :
                                   i \in 1..Len(ctx.val)}
        dialog_chunks == SelectSeq(first.chunks, LAMBDA c : c.id \in dialog_chunk_ids)
        second == IF with_session /\ Len(dialog_chunks) > 0
                  THEN find_similar_chunks(first.cache, query, dialog_chunks,
                                           max_chunks \div 2, None)
                  ELSE [val |-> <<>>, chunks |-> dialog_chunks, cache |-> first.cache]
        similar_chunks == second.val \o first.val
        unique_chunks == Dedup(similar_chunks, {})
    IN  [val |-> SliceTo(unique_chunks, max_chunks),
         chunks |-> first.chunks,
         cm_cache |-> second.cache,
         dm_cache |-> ctx.cache]

\* the list returned (val), the chunk objects and the two caches afterwards
get_relevant_context(store, cmc, dmc, query, code_chunks, session_arg, max_chunks) ==
    LET first == find_similar_chunks(cmc, query, code_chunks, max_chunks, None)
        with_session == ~NoId(session_arg)
        ctx == IF with_session
               THEN get_context_messages(store, dmc, session_arg[1], Some(query), None)
               ELSE [val |-> <<>>, cache |-> dmc]
        dialog_chunk_ids == UNION {{ctx.val[i].context_chunks[k] :
                                      k \in 1..Len(ctx.val[i].context_chunks)} :
                                   i \in 1..Len(ctx.val)}
        dialog_chunks == SelectSeq(first.chunks, LAMBDA c : c.id \in dialog_chunk_ids)
        second == IF with_session /\ Len(dialog_chunks) > 0
                  THEN find_similar_chunks(first.cache, query, dialog_chunks,
                                           max_chunks \div 2, None)
                  ELSE [val |-> <<>>, chunks |-> dialog_chunks, cache |-> first.cache]
        similar_chunks == first.val \o second.val
        unique_chunks == Dedup(similar_chunks, {})
    IN  [val |-> SliceTo(unique_chunks, max_chunks),
         chunks |-> first.chunks,
         cm_cache |-> second.cache,
         dm_cache |-> ctx.cache]

\* ------------------------------------------------------------------------
\* The ranking operations on a caller's chunk list (SpecRank)
\* ------------------------------------------------------------------------
Queries == {"t0"}

\* the chunk objects a caller holds: the embedding is None, or already set
\* (in the model: on chunks of content t1, to a vector other than its own);
\* one more chunk has an id no message refers to
ChunkObjects ==
    {c \in [id : ChunkIds, content : {"t0", "t1"}, embedding : {None, Some(2)}] :
        c.embedding # None => c.content = "t1"}
    \cup {[id |-> "c3", content |-> "t0", embedding |-> None]}

RECURSIVE ListsOf(_, _)
\* the lists of exactly n elements of S
ListsOf(S, n) ==
    IF n = 0 THEN {<<>>} ELSE {Append(l, x) : l \in ListsOf(S, n - 1), x \in S}

ListsUpTo(S, n) == UNION {ListsOf(S, k) : k \in 0..n}

\* a stored message of session s1 that refers to the chunk ids cc
RefMessage(cc) ==
    [id |-> 1, role |-> "user", content |-> "t1", timestamp |-> 0,
     session_id |-> "s1", context_chunks |-> cc]

\* the stores the ranking runs against: no session, or s1 with one message
RankStores ==
    {<<>>} \cup {Put(<<>>, "s1", <<RefMessage(cc)>>) :
                    cc \in {<<>>, <<"c1">>, <<"c1", "c2">>}}

Thresholds == {None} \cup {Some(x) : x \in {0, 10}}

InitRank ==
    /\ ChunkerIdle
    /\ MemoryIdle
    /\ ClientsIdle
    /\ sessions \in RankStores
    /\ chunks \in ListsUpTo(ChunkObjects, MaxList)
    /\ cm_cache = <<>>
    /\ dm_cache = <<>>

\* a call of EmbeddingService.find_similar_chunks on the ContextManager's service
FindSimilarChunks(query, top_k, threshold_arg) ==
    LET r == find_similar_chunks(cm_cache, query, chunks, top_k, threshold_arg)
    IN  /\ ret.op = "init"
        /\ ret' = [op |-> "find_similar_chunks", query |-> query, top_k |-> top_k,
                   threshold |-> threshold_arg, val |-> r.val]
        /\ chunks' = r.chunks
        /\ cm_cache' = r.cache
        /\ UNCHANGED <<dm_cache, sessions, now, next_uuid, next_msg, appended>>

\* a call of ContextManager.get_relevant_context
GetRelevantContext(query, session_arg, max_chunks) ==
    LET r == get_relevant_context(sessions, cm_cache, dm_cache, query, chunks,
                                  session_arg, max_chunks)
    IN  /\ ret.op = "init"
        /\ ret' = [op |-> "get_relevant_context", query |-> query,
                   session_id |-> session_arg, max_chunks |-> max_chunks,
                   val |-> r.val]
        /\ chunks' = r.chunks
        /\ cm_cache' = r.cm_cache
        /\ dm_cache' = r.dm_cache
        /\ UNCHANGED <<sessions, now, next_uuid, next_msg, appended>>

NextRank ==
    \/ \E query \in Queries, top_k \in 0..MaxK, threshold_arg \in Thresholds :
          FindSimilarChunks(query, top_k, threshold_arg) /\ UNCHANGED <<chunkerVars, clientVars>>
    \/ \E query \in Queries, session_arg \in {None, Some("s1"), Some("s2")},
          max_chunks \in 0..MaxK :
          GetRelevantContext(query, session_arg, max_chunks)
          /\ UNCHANGED <<chunkerVars, clientVars>>

SpecRank == InitRank /\ [][NextRank]_vars

\* ------------------------------------------------------------------------
\* Reads of a session between appends, while time passes (SpecExpiry)
\* ------------------------------------------------------------------------
\* a call of DialogMemory.get_context_messages at time now, max_messages
\* left to its default
ReadContextMessages(session_id, current_query) ==
    LET r == get_context_messages(sessions, dm_cache, session_id, current_query, None)
    IN  /\ ret' = [op |-> "get_context_messages", session_id |-> session_id,
                   query |-> current_query, at |-> now, val |-> r.val]
        /\ dm_cache' = r.cache
        /\ UNCHANGED <<chunks, cm_cache, sessions, now, next_uuid, next_msg, appended>>

\* a call of DialogMemory.get_session_summary at time now
ReadSessionSummary(session_id) ==
    /\ ret' = [op |-> "get_session_summary", session_id |-> session_id,
               at |-> now, val |-> get_session_summary(sessions, session_id)]
    /\ UNCHANGED <<chunks, cm_cache, dm_cache, sessions, now, next_uuid,
                   next_msg, appended>>

InitExpiry ==
    /\ MemoryInit
    /\ ChunkerIdle
    /\ RankIdle
    /\ ClientsIdle

NextExpiry ==
    \/ Tick /\ UNCHANGED <<chunkerVars, rankVars, clientVars>>
    \/ \E message \in Messages("s1") :
          add_message(message) /\ UNCHANGED <<chunkerVars, rankVars, clientVars>>
    \/ \E current_query \in {None, Some("t0")} :
          ReadContextMessages("s1", current_query)
          /\ UNCHANGED <<chunkerVars, clientVars>>
    \/ ReadSessionSummary("s1") /\ UNCHANGED <<chunkerVars, clientVars>>

SpecExpiry == InitExpiry /\ [][NextExpiry]_vars

\* ------------------------------------------------------------------------
\* Reading a session's history (SpecHistory)
\* ------------------------------------------------------------------------
\* the messages a session can hold; add_message takes any timestamp
StoredMessages ==
    [id : {0}, role : {"user", "system"}, content : {"t0", "t1"},
     timestamp : {0, TickLen}, session_id : {"s1"}, context_chunks : {<<>>}]

\* message ids are unique: the i-th message of a history has id i
Numbered(msgs) == [i \in 1..Len(msgs) |-> [msgs[i] EXCEPT !.id = i]]

InitHistory ==
    /\ ChunkerIdle
    /\ RankIdle
    /\ MemoryIdle
    /\ ClientsIdle
    /\ sessions \in {Put(<<>>, "s1", Numbered(msgs)) :
                        msgs \in ListsUpTo(StoredMessages, MaxList)}

\* a call of DialogMemory.get_context_messages
GetContextMessages(session_id, current_query, max_arg_) ==
    LET r == get_context_messages(sessions, dm_cache, session_id,
                                  current_query, max_arg_)
    IN  /\ ret.op = "init"
        /\ ret' = [op |-> "get_context_messages", session_id |-> session_id,
                   query |-> current_query, max_messages |-> max_arg_, val |-> r.val]
        /\ dm_cache' = r.cache
        /\ UNCHANGED <<chunks, cm_cache, sessions, now, next_uuid, next_msg, appended>>

\* a call of DialogMemory.get_session_summary
GetSessionSummary(session_id) ==
    /\ ret.op = "init"
    /\ ret' = [op |-> "get_session_summary", session_id |-> session_id,
               val |-> get_session_summary(sessions, session_id)]
    /\ UNCHANGED <<chunks, cm_cache, dm_cache, sessions, now, next_uuid,
                   next_msg, appended>>

\* a GET /chat/history/{session_id}?limit=...: no statement of the handler
\* raises on a stored list of DialogMessage, so the response is a 200
GetChatHistory(session_id, limit) ==
    /\ ret.op = "init"
    /\ ret' = [op |-> "get_chat_history", session_id |-> session_id,
               limit |-> limit, status |-> 200,
               val |-> get_chat_history(sessions, session_id, limit)]
    /\ UNCHANGED <<chunks, cm_cache, dm_cache, sessions, now, next_uuid,
                   next_msg, appended>>

\* the session ids of the lookups: the registered "s1" and the unknown "s2"
LookupIds == {"s1", "s2"}

NextHistory ==
    \/ \E session_id \in LookupIds, current_query \in {None, Some("t0")},
          max_arg_ \in {None} \cup {Some(n) : n \in 0..MaxK} :
           GetContextMessages(session_id, current_query, max_arg_)
           /\ UNCHANGED <<chunkerVars, clientVars>>
    \/ \E session_id \in LookupIds :
           GetSessionSummary(session_id) /\ UNCHANGED <<chunkerVars, clientVars>>
    \/ \E session_id \in LookupIds, limit \in {0, 1, DefaultLimit} :
           GetChatHistory(session_id, limit) /\ UNCHANGED <<chunkerVars, clientVars>>

SpecHistory == InitHistory /\ [][NextHistory]_vars

\* ------------------------------------------------------------------------
\* EmbeddingService.get_embedding under concurrent callers (SpecEmbed)
\* ------------------------------------------------------------------------
\* the coroutines that call get_embedding on the one service
Callers == {"p1", "p2"}

\* the texts asked for; "t0 " differs from "t0" by a trailing blank only
EmbedTexts == {"t0", "t0 ", "t1"}

\* mutant: a cache that keeps the latest entry only
cache_store_latest_only(cache, text, embedding_list) ==
    [x \in {text} |-> embedding_list]

\* line 33: self._embedding_cache[text] = embedding_list
cache_store(cache, text, embedding_list) ==
    [x \in DOMAIN cache \cup {text} |->
        IF x = text THEN embedding_list ELSE cache[x]]

InitEmbed ==
    /\ ChunkerIdle
    /\ MemoryInit
    /\ RankIdle
    /\ LlmIdle
    /\ ChatIdle
    /\ ecalls = [p \in Callers |-> [pc |-> "idle", text |-> "", val |-> None]]
    /\ encodes = [t \in EmbedTexts |-> 0]

\* get_embedding up to its await: a hit returns the cached vector; a miss
\* hands model.encode to the executor and suspends the caller
GetEmbeddingCall(p, text) ==
    /\ ecalls[p].pc # "encoding"
    /\ IF text \in DOMAIN cm_cache
       THEN /\ ecalls' = [ecalls EXCEPT ![p] = [pc |-> "returned", text |-> text,
                                                val |-> Some(cm_cache[text])]]
            /\ UNCHANGED encodes
       ELSE /\ ecalls' = [ecalls EXCEPT ![p] = [pc |-> "encoding", text |-> text,
                                                val |-> None]]
            /\ encodes' = [encodes EXCEPT ![text] = @ + 1]
    /\ UNCHANGED <<cm_cache, chunks, dm_cache, llm, requests, chat>>

\* get_embedding after its await: the vector is stored and returned
GetEmbeddingResume(p) ==
    /\ ecalls[p].pc = "encoding"
    /\ LET text == ecalls[p].text
           embedding_list == model_encode(text)
       IN  /\ cm_cache' = cache_store(cm_cache, text, embedding_list)
           /\ ecalls' = [ecalls EXCEPT ![p] = [pc |-> "returned", text |-> text,
                                               val |-> Some(embedding_list)]]
    /\ UNCHANGED <<encodes, chunks, dm_cache, llm, requests, chat>>

NextEmbed ==
    \/ \E p \in Callers, text \in EmbedTexts :
          GetEmbeddingCall(p, text) /\ UNCHANGED <<chunkerVars, memoryVars>>
    \/ \E p \in Callers :
          GetEmbeddingResume(p) /\ UNCHANGED <<chunkerVars, memoryVars>>

SpecEmbed == InitEmbed /\ [][NextEmbed]_vars

\* ------------------------------------------------------------------------
\* LLMClient.generate_completion / generate_chat_completion (SpecLlm)
\* ------------------------------------------------------------------------
Providers == {"ollama", "openai", "lm_studio"}

LlmOps == {"generate_completion", "generate_chat_completion"}

\* settings.default_model
default_model == "codellama"

\* the model argument: omitted, empty, or a name
ModelArgs == {None, Some(""), Some("m1")}

\* the path the request goes to (appended to base_url)
Endpoint(provider, op) ==
    IF provider = "ollama"
    THEN IF op = "generate_completion" THEN "/api/generate" ELSE "/api/chat"
    ELSE IF op = "generate_completion" THEN "/completions" ELSE "/chat/completions"

\* what the backend does with a request: it cannot be reached, it answers
\* with a non-success status, it answers 200 with the expected body, or 200
\* with a JSON body that lacks the expected field
Outcomes == {"unreachable", "bad_status", "ok", "ok_without_field"}

\* the outcomes that client.post / raise_for_status turn into httpx.HTTPError
HttpErrors == {"unreachable", "bad_status"}

\* client.post(url, json=payload, ...): one request on the wire
post(reqs, request) == Append(reqs, request)

\* mutant: an except clause that sends the request once more before raising
on_http_error_retry(reqs, request) == Append(reqs, request)

\* except httpx.HTTPError: logger.error(...); raise -- nothing is sent
on_http_error(reqs, request) == reqs

\* how the call ends: the text returned, or the exception raised
Ending(provider, op, outcome) ==
    CASE outcome = "unreachable" -> [pc |-> "raised", val |-> "ConnectError"]
      [] outcome = "bad_status" -> [pc |-> "raised", val |-> "HTTPStatusError"]
      [] outcome = "ok" -> [pc |-> "returned", val |-> "text"]
      [] outcome = "ok_without_field" ->
            IF provider = "ollama" /\ op = "generate_completion"
            THEN [pc |-> "returned", val |-> ""]
            ELSE [pc |-> "raised", val |-> "KeyError"]

InitLlm ==
    /\ ChunkerIdle
    /\ MemoryInit
    /\ RankIdle
    /\ EmbedIdle
    /\ ChatIdle
    /\ llm \in {[pc |-> "idle", provider |-> pr, call |-> 0,
                  op |-> "", outcome |-> "", val |-> ""] : pr \in Providers}
    /\ requests = <<>>

\* generate_completion / generate_chat_completion up to the await of
\* client.post: the model defaults, the payload is built and sent
Generate(op, model_arg) ==
    /\ llm.pc # "awaiting"
    /\ llm.call < MaxCalls
    /\ LET model == IF NoId(model_arg) THEN default_model ELSE model_arg[1]
       IN  requests' = post(requests, [endpoint |-> Endpoint(llm.provider, op),
                                       model |-> model])
    /\ llm' = [llm EXCEPT !.pc = "awaiting", !.call = @ + 1, !.op = op,
                          !.outcome = "", !.val = ""]
    /\ UNCHANGED <<ecalls, encodes, chat>>

\* the rest of the call: the backend's answer is turned into the returned
\* text or into the exception that leaves the call
BackendAnswers(outcome) ==
    /\ llm.pc = "awaiting"
    /\ llm.op \in LlmOps
    /\ LET end == Ending(llm.provider, llm.op, outcome)
       IN  llm' = [llm EXCEPT !.pc = end.pc, !.outcome = outcome, !.val = end.val]
    /\ requests' = IF outcome \in HttpErrors
                   THEN on_http_error(requests, requests[Len(requests)])
                   ELSE requests
    /\ UNCHANGED <<ecalls, encodes, chat>>

NextLlm ==
    \/ \E op \in LlmOps, model_arg \in ModelArgs :
          Generate(op, model_arg) /\ UNCHANGED <<chunkerVars, memoryVars, rankVars>>
    \/ \E outcome \in Outcomes :
          BackendAnswers(outcome) /\ UNCHANGED <<chunkerVars, memoryVars, rankVars>>

SpecLlm == InitLlm /\ [][NextLlm]_vars

\* ------------------------------------------------------------------------
\* Every operation that calls a backend (SpecBackends)
\* ------------------------------------------------------------------------
StatusOps == {"list_models", "health_check"}

\* the path a status request goes to (appended to base_url)
StatusEndpoint(provider, op) ==
    IF provider = "ollama" THEN "/api/tags" ELSE "/models"

\* client.get(url, ...): one request on the wire
get(reqs, request) == Append(reqs, request)

\* how a status call ends. list_models: the names of the body, [] when the
\* body has no "models", and [] from the except clause; health_check:
\* status_code == 200, and False from the except clause
StatusEnding(op, outcome) ==
    IF op = "list_models"
    THEN CASE outcome \in HttpErrors -> [pc |-> "returned", val |-> <<>>]
           [] outcome = "ok" -> [pc |-> "returned", val |-> <<"m1">>]
           [] outcome = "ok_without_field" -> [pc |-> "returned", val |-> <<>>]
    ELSE CASE outcome \in HttpErrors -> [pc |-> "returned", val |-> FALSE]
           [] OTHER -> [pc |-> "returned", val |-> TRUE]

\* LLMClient.list_models up to the await of client.get; for a provider
\* other than Ollama no request is made and the call returns at once
ListModels ==
    /\ llm.pc # "awaiting"
    /\ llm.call < MaxCalls
    /\ IF llm.provider = "ollama"
       THEN /\ requests' = get(requests, [endpoint |-> StatusEndpoint(llm.provider,
                                                                      "list_models"),
                                          model |-> ""])
            /\ llm' = [llm EXCEPT !.pc = "awaiting", !.call = @ + 1,
                                  !.op = "list_models", !.outcome = "", !.val = ""]
       ELSE /\ requests' = requests
            /\ llm' = [llm EXCEPT !.pc = "returned", !.call = @ + 1,
                                  !.op = "list_models", !.outcome = "",
                                  !.val = <<default_model>>]
    /\ UNCHANGED <<ecalls, encodes, chat>>

\* LLMClient.health_check up to the await of client.get
HealthCheck ==
    /\ llm.pc # "awaiting"
    /\ llm.call < MaxCalls
    /\ requests' = get(requests, [endpoint |-> StatusEndpoint(llm.provider,
                                                              "health_check"),
                                  model |-> ""])
    /\ llm' = [llm EXCEPT !.pc = "awaiting", !.call = @ + 1,
                          !.op = "health_check", !.outcome = "", !.val = ""]
    /\ UNCHANGED <<ecalls, encodes, chat>>

\* the rest of a status call
StatusAnswers(outcome) ==
    /\ llm.pc = "awaiting"
    /\ llm.op \in StatusOps
    /\ LET end == StatusEnding(llm.op, outcome)
       IN  llm' = [llm EXCEPT !.pc = end.pc, !.outcome = outcome, !.val = end.val]
    /\ UNCHANGED <<requests, ecalls, encodes, chat>>

\* get_embedding after its await when model.encode raised in the worker:
\* no except clause, the exception leaves the call and nothing is stored
GetEmbeddingRaises(p) ==
    /\ ecalls[p].pc = "encoding"
    /\ ecalls' = [ecalls EXCEPT ![p] = [pc |-> "raised", text |-> ecalls[p].text,
                                        val |-> None]]
    /\ UNCHANGED <<cm_cache, encodes, chunks, dm_cache, llm, requests, chat>>

InitBackends ==
    /\ ChunkerIdle
    /\ MemoryInit
    /\ RankIdle
    /\ ChatIdle
    /\ ecalls = [p \in Callers |-> [pc |-> "idle", text |-> "", val |-> None]]
    /\ encodes = [t \in EmbedTexts |-> 0]
    /\ llm \in {[pc |-> "idle", provider |-> pr, call |-> 0,
                  op |-> "", outcome |-> "", val |-> ""] : pr \in Providers}
    /\ requests = <<>>

NextBackends ==
    \/ \E op \in LlmOps :
          Generate(op, None) /\ UNCHANGED <<chunkerVars, memoryVars, rankVars>>
    \/ \E outcome \in Outcomes :
          BackendAnswers(outcome) /\ UNCHANGED <<chunkerVars, memoryVars, rankVars>>
    \/ ListModels /\ UNCHANGED <<chunkerVars, memoryVars, rankVars>>
    \/ HealthCheck /\ UNCHANGED <<chunkerVars, memoryVars, rankVars>>
    \/ \E outcome \in Outcomes :
          StatusAnswers(outcome) /\ UNCHANGED <<chunkerVars, memoryVars, rankVars>>
    \/ /\ encodes["t0"] < MaxCalls
       /\ GetEmbeddingCall("p1", "t0")
       /\ UNCHANGED <<chunkerVars, memoryVars>>
    \/ GetEmbeddingResume("p1") /\ UNCHANGED <<chunkerVars, memoryVars>>
    \/ GetEmbeddingRaises("p1") /\ UNCHANGED <<chunkerVars, memoryVars>>

SpecBackends == InitBackends /\ [][NextBackends]_vars

\* ------------------------------------------------------------------------
\* POST /chat/message (SpecChat)
\* ------------------------------------------------------------------------
\* the requests being handled concurrently
Handlers == {"r1", "r2"}

\* request.context_code: empty (no chunking), or two comment lines
ContextCodes == {<<>>, <<"#", NL, "#">>}

\* ChatRequest: file_path and language are set (FilePath, "python")
ChatRequests ==
    [session_id : {None, Some("s1")}, message : {"t0"}, context_code : ContextCodes]

\* lines 25-31 and 74: the ids of the chunks of the request's code
ContextChunkIds(request) ==
    IF Len(request.context_code) = 0 THEN <<>>
    ELSE LET context_chunks ==
                 add_overlap(Segmentation(request.context_code, FilePath, "python", None))
         IN  [k \in 1..Len(context_chunks) |-> context_chunks[k].id]

\* the DialogMessage add_dialog_context builds
DialogMessage(id, session_id, role, content, context_chunk_ids, t) ==
    [id |-> id, role |-> role, content |-> content, timestamp |-> t,
     session_id |-> session_id, context_chunks |-> context_chunk_ids]

\* line 65: the request generate_chat_completion sends
ChatCompletionRequest ==
    [endpoint |-> Endpoint(llm.provider, "generate_chat_completion"),
     model |-> default_model]

\* chat_message up to its first suspension: the session is looked up or
\* registered, the code is chunked, and the history lookup either suspends
\* on an embedding it has to compute or completes, and then the LLM request
\* is sent
chat_message(h, request) ==
    LET fresh == NoId(request.session_id)
        session_id == IF fresh THEN Uuid(next_uuid) ELSE request.session_id[1]
        store == IF session_id \notin DOMAIN sessions
                 THEN Put(sessions, session_id, <<>>) ELSE sessions
        lookup == get_context_messages(store, dm_cache, session_id,
                                       Some(request.message), Some(10))
        suspends == lookup.cache # dm_cache
    IN  /\ chat[h].pc = "idle"
        /\ fresh => next_uuid <= Len(UuidPool)
        /\ next_uuid' = IF fresh THEN next_uuid + 1 ELSE next_uuid
        /\ sessions' = store
        /\ chat' = [chat EXCEPT ![h] =
                       [pc |-> IF suspends THEN "embedding" ELSE "awaiting",
                        request |-> request, session_id |-> session_id,
                        response |-> ""]]
        /\ requests' = IF suspends THEN requests
                       ELSE post(requests, ChatCompletionRequest)
        /\ UNCHANGED <<now, next_msg, appended, ret, chunks, cm_cache, dm_cache,
                       ecalls, encodes, llm>>

\* chat_message after the embeddings of the history lookup: they were
\* computed (and cached) and the LLM request is sent, or the computation
\* raised and the handler answers 500
chat_message_embedded(h, ok) ==
    LET lookup == get_context_messages(sessions, dm_cache, chat[h].session_id,
                                       Some(chat[h].request.message), Some(10))
    IN  /\ chat[h].pc = "embedding"
        /\ chat' = [chat EXCEPT ![h].pc = IF ok THEN "awaiting" ELSE "failed"]
        /\ dm_cache' = IF ok THEN lookup.cache ELSE dm_cache
        /\ requests' = IF ok THEN post(requests, ChatCompletionRequest) ELSE requests
        /\ UNCHANGED <<sessions, now, next_uuid, next_msg, appended, ret, chunks,
                       cm_cache, ecalls, encodes, llm>>

\* a chat_message that records the user message whether or not the LLM
\* call succeeded
chat_message_answered_user_recorded(h, outcome) ==
    LET end == Ending(llm.provider, "generate_chat_completion", outcome)
        session_id == chat[h].session_id
        ids == ContextChunkIds(chat[h].request)
        user == DialogMessage(next_msg, session_id, "user",
                              chat[h].request.message, ids, now)
        assistant == DialogMessage(next_msg + 1, session_id, "assistant",
                                   end.val, ids, now)
    IN  /\ chat[h].pc = "awaiting"
        /\ IF end.pc = "raised"
           THEN /\ chat' = [chat EXCEPT ![h].pc = "failed"]
                /\ sessions' = add_message_store(sessions, user, now)
                /\ appended' = Logged(appended, user)
                /\ next_msg' = next_msg + 1
           ELSE /\ chat' = [chat EXCEPT ![h].pc = "done", ![h].response = end.val]
                /\ sessions' = add_message_store(
                                   add_message_store(sessions, user, now), assistant, now)
                /\ appended' = Logged(Logged(appended, user), assistant)
                /\ next_msg' = next_msg + 2
        /\ UNCHANGED <<requests, now, next_uuid, ret, chunks, cm_cache, dm_cache,
                       ecalls, encodes, llm>>

\* chat_message after the LLM call: an exception of the call is answered
\* with a 500; a reply is recorded after the user message (lines 72-81: two
\* add_dialog_context calls, no suspension between them)
chat_message_answered(h, outcome) ==
    LET end == Ending(llm.provider, "generate_chat_completion", outcome)
        session_id == chat[h].session_id
        ids == ContextChunkIds(chat[h].request)
        user == DialogMessage(next_msg, session_id, "user",
                              chat[h].request.message, ids, now)
        assistant == DialogMessage(next_msg + 1, session_id, "assistant",
                                   end.val, ids, now)
    IN  /\ chat[h].pc = "awaiting"
        /\ IF end.pc = "raised"
           THEN /\ chat' = [chat EXCEPT ![h].pc = "failed"]
                /\ UNCHANGED <<sessions, appended, next_msg>>
           ELSE /\ chat' = [chat EXCEPT ![h].pc = "done", ![h].response = end.val]
                /\ sessions' = add_message_store(
                                   add_message_store(sessions, user, now), assistant, now)
                /\ appended' = Logged(Logged(appended, user), assistant)
                /\ next_msg' = next_msg + 2
        /\ UNCHANGED <<requests, now, next_uuid, ret, chunks, cm_cache, dm_cache,
                       ecalls, encodes, llm>>

\* a message stored in s1 before the requests arrive
EarlierMessage ==
    DialogMessage(0, "s1", "user", "t1", <<>>, 0)

InitChat ==
    /\ ChunkerIdle
    /\ RankIdle
    /\ EmbedIdle
    /\ LlmIdle
    /\ MemoryIdle
    /\ sessions \in {<<>>, Put(<<>>, "s1", <<EarlierMessage>>)}
    /\ chat = [h \in Handlers |->
                 [pc |-> "idle", request |-> <<>>, session_id |-> "", response |-> ""]]

NextChat ==
    \/ Tick /\ UNCHANGED <<chunkerVars, rankVars, clientVars>>
    \/ \E h \in Handlers, request \in ChatRequests :
          chat_message(h, request) /\ UNCHANGED chunkerVars
    \/ \E h \in Handlers, ok \in BOOLEAN :
          chat_message_embedded(h, ok) /\ UNCHANGED chunkerVars
    \/ \E h \in Handlers, outcome \in Outcomes :
          chat_message_answered(h, outcome) /\ UNCHANGED chunkerVars

SpecChat == InitChat /\ [][NextChat]_vars

\* ------------------------------------------------------------------------
\* Claims about the chunker (checked under SpecChunker)
\* ------------------------------------------------------------------------
\* the inclusive line ranges of a chunk list tile [0, n) in order
Tiles(chs, n) ==
    /\ Len(chs) >= 1
    /\ chs[1].start_line = 0
    /\ \A i \in 2..Len(chs) : chs[i].start_line = chs[i - 1].end_line + 1
    /\ chs[Len(chs)].end_line = n - 1

\* C1: the chunks chunk_code builds before the overlap pass, the sub-chunks
\* of token-split segments included, have line ranges that partition
\* [0, len(lines)) exactly once, in order.
C1_PreOverlapPartition ==
    cpc = "done" => Tiles(pre_chunks, Len(Split(code)))

\* C2: every chunk chunk_code returns satisfies 0 <= start_line <= end_line.
C2_LineRangeOrdered ==
    cpc = "done" =>
        \A i \in 1..Len(out_chunks) :
            /\ 0 <= out_chunks[i].start_line
            /\ out_chunks[i].start_line <= out_chunks[i].end_line

\* C3: for non-empty code every returned chunk has non-empty content and a
\* positive token_count.
C3_NonEmptyChunks ==
    (cpc = "done" /\ Len(code) > 0) =>
        \A i \in 1..Len(out_chunks) :
            /\ Len(out_chunks[i].content) > 0
            /\ out_chunks[i].token_count > 0

\* ------------------------------------------------------------------------
\* Claims about the dialog memory (checked under Spec)
\* ------------------------------------------------------------------------
\* the step is a call of add_message (directly or through add_dialog_context)
AddStep == next_msg' = next_msg + 1

\* the step is a call of get_or_create_session
GetOrCreateStep == ret'.op = "get_or_create_session" /\ now' = now

\* the message list of a session, empty when the session is unknown
MessagesOf(store, sid) == IF sid \in DOMAIN store THEN store[sid] ELSE <<>>

\* a message the pruning policy retains at time t
Retained(msg, t) == msg.role = "system" \/ msg.timestamp > t - settings_memory_ttl

\* the subsequence of the retained messages of a list, order unchanged
RetainedOf(msgs, t) ==
    LET keep == {i \in 1..Len(msgs) : Retained(msgs[i], t)}
    IN  [k \in 1..Cardinality(keep) |-> msgs[Nth(keep, k)]]

\* C4: after add_message on session s, the sequence of s is its previous
\* sequence with the new message appended, filtered to the messages newer
\* than now - TTL or of role system, in unchanged order.
C4_AddMessagePrunes ==
    [][AddStep =>
        LET m == ret'.arg
            s == m.session_id
        IN  /\ s \in DOMAIN sessions'
            /\ sessions'[s] = RetainedOf(Append(MessagesOf(sessions, s), m), now)]_vars

\* C4 witness: an add_message has left an over-age system message in its
\* session and removed an expired non-system message from it.
C4_Witness ==
    /\ ret.op \in {"add_message", "add_dialog_context"}
    /\ LET s == ret.arg.session_id
       IN  /\ s \in DOMAIN sessions
           /\ \E i \in 1..Len(sessions[s]) :
                 /\ sessions[s][i].role = "system"
                 /\ sessions[s][i].timestamp <= now - settings_memory_ttl
           /\ \E j \in 1..Len(appended[s]) :
                 /\ appended[s][j].role # "system"
                 /\ appended[s][j].timestamp <= now - settings_memory_ttl
                 /\ \A i \in 1..Len(sessions[s]) : sessions[s][i] # appended[s][j]

\* the session ids uuid4 has handed out so far
Issued == {Uuid(k) : k \in 1..(next_uuid - 1)}

\* the store differs from the old one by exactly a new, empty session sid
RegisteredEmpty(old, new, sid) ==
    /\ sid \notin DOMAIN old
    /\ DOMAIN new = DOMAIN old \cup {sid}
    /\ new[sid] = <<>>
    /\ \A x \in DOMAIN old : new[x] = old[x]

C8_AppendInCallOrder ==
    /\ [][(AddStep /\ Retained(ret'.arg, now)) =>
            LET m == ret'.arg
            IN  /\ m.session_id \in DOMAIN sessions'
                /\ Len(sessions'[m.session_id]) > 0
                /\ sessions'[m.session_id][Len(sessions'[m.session_id])] = m]_vars
    /\ [](\A s \in DOMAIN sessions :
            \A i, j \in 1..Len(sessions[s]) :
                i < j => sessions[s][i].id < sessions[s][j].id)

\* C8 witness: a second message has just been appended behind an earlier one.
C8_Witness ==
    /\ ret.op \in {"add_message", "add_dialog_context"}
    /\ ret.arg.session_id \in DOMAIN sessions
    /\ Len(sessions[ret.arg.session_id]) >= 2
    /\ sessions[ret.arg.session_id][Len(sessions[ret.arg.session_id])] = ret.arg

\* ------------------------------------------------------------------------
\* Claims about the ranking (checked under SpecRank)
\* ------------------------------------------------------------------------
\* the threshold a call of find_similar_chunks was given: the argument, or
\* the configured one when no argument was passed
GivenThreshold(arg) == IF arg = None THEN settings_similarity_threshold ELSE arg[1]

\* C5: the output of find_similar_chunks is ordered by non-increasing score,
\* every returned score is >= the threshold, its length is at most top_k,
\* every returned chunk is one of the input chunks, and an empty chunk list
\* gives an empty output.
C5_FindSimilarChunks ==
    ret.op = "find_similar_chunks" =>
        LET out == ret.val
        IN  /\ \A i, j \in 1..Len(out) : i < j => out[i].score >= out[j].score
            /\ \A i \in 1..Len(out) : out[i].score >= GivenThreshold(ret.threshold)
            /\ Len(out) <= ret.top_k
            /\ \A i \in 1..Len(out) : \E k \in 1..Len(chunks) : chunks[k] = out[i].chunk
            /\ Len(chunks) = 0 => out = <<>>

\* C5 witness: a call returned two chunks of different scores and left out
\* at least one input chunk.
C5_Witness ==
    /\ ret.op = "find_similar_chunks"
    /\ Len(ret.val) = 2
    /\ ret.top_k = 2
    /\ ret.val[1].score > ret.val[2].score
    /\ Len(chunks) > 2

\* the elements of a chunk list whose id no earlier element has, in order
FirstSeen(chs) ==
    LET idx == {i \in 1..Len(chs) : \A j \in 1..(i - 1) : chs[j].id # chs[i].id}
    IN  [k \in 1..Cardinality(idx) |-> chs[Nth(idx, k)]]

\* the chunks of a list of (chunk, score) pairs
ChunksOf(pairs) == [i \in 1..Len(pairs) |-> pairs[i].chunk]

\* the code-similarity ranking of the last get_relevant_context call
CodeRanking ==
    ChunksOf(find_similar_chunks(cm_cache, ret.query, chunks, ret.max_chunks, None).val)

\* the dialog-derived ranking of the last get_relevant_context call: the
\* chunks the session's relevant messages refer to, ranked with
\* top_k = max_chunks // 2
DialogRanking ==
    IF NoId(ret.session_id) THEN <<>>
    ELSE LET msgs == get_context_messages(sessions, dm_cache, ret.session_id[1],
                                          Some(ret.query), None).val
             ids == {c \in ChunkIds : \E i \in 1..Len(msgs) :
                        \E k \in 1..Len(msgs[i].context_chunks) :
                            msgs[i].context_chunks[k] = c}
             referred == SelectSeq(chunks, LAMBDA c : c.id \in ids)
         IN  ChunksOf(find_similar_chunks(cm_cache, ret.query, referred,
                                          ret.max_chunks \div 2, None).val)

\* C6: get_relevant_context returns at most max_chunks chunks, no two with
\* the same id, in first-seen order of the code-similarity ranking followed
\* by the dialog-derived ranking; deduplication is by id only.
C6_RelevantContext ==
    ret.op = "get_relevant_context" =>
        LET out == ret.val
            firsts == FirstSeen(CodeRanking \o DialogRanking)
        IN  /\ Len(out) <= ret.max_chunks
            /\ \A i, j \in 1..Len(out) : i # j => out[i].id # out[j].id
            /\ out = SubSeq(firsts, 1, Min(ret.max_chunks, Len(firsts)))

\* C6 witness: two input chunks share an id and only one of them is
\* returned; the two returned chunks have the same content and different
\* ids, the second one coming from the dialog-derived ranking.
C6_Witness ==
    /\ ret.op = "get_relevant_context"
    /\ Len(ret.val) = 2
    /\ ret.val[1].content = ret.val[2].content
    /\ ret.val[1].id # ret.val[2].id
    /\ \E a, b \in 1..Len(chunks) : a # b /\ chunks[a].id = chunks[b].id
    /\ \A i \in 1..Len(CodeRanking) : CodeRanking[i] # ret.val[2]

\* ------------------------------------------------------------------------
\* Claims about reading a history with a query (checked under SpecHistory)
\* ------------------------------------------------------------------------
\* the last operation read a known session with a query
QueriedKnownSession ==
    /\ ret.op = "get_context_messages"
    /\ ret.query # None
    /\ ret.session_id \in DOMAIN sessions

\* the max_messages of the last read: the argument, or the configured
\* max_dialog_history when no argument was passed
GivenMax(arg) == IF arg = None THEN settings_max_dialog_history ELSE arg[1]

\* the relevance score of a stored message for a query, in tenths
ScoreOf(q, m) ==
    IF m.role = "system" THEN SystemScore
    ELSE cosine_similarity(model_encode(q), model_encode(m.content))

\* message a ranks above message b for query q: score descending, then
\* timestamp descending
RanksAbove(q, a, b) ==
    \/ ScoreOf(q, a) > ScoreOf(q, b)
    \/ ScoreOf(q, a) = ScoreOf(q, b) /\ a.timestamp > b.timestamp

\* out is a selection of n of the messages msgs (all when fewer are stored),
\* in ascending timestamp order, with no excluded message ranking above an
\* included one
RelevantSelection(q, msgs, n, out) ==
    LET stored == {msgs[i] : i \in 1..Len(msgs)}
        chosen == {out[i] : i \in 1..Len(out)}
    IN  /\ Len(out) = Min(n, Len(msgs))
        /\ Cardinality(chosen) = Len(out)
        /\ chosen \subseteq stored
        /\ \A i, j \in 1..Len(out) : i < j => out[i].timestamp <= out[j].timestamp
        /\ \A x \in stored \ chosen : \A y \in chosen : ~RanksAbove(q, x, y)

\* C9: with a query, get_context_messages on a known session returns
\* min(max_messages, number of stored messages) messages in ascending
\* timestamp order, no excluded message ranking above an included one.
C9_RelevantSelection ==
    QueriedKnownSession =>
        RelevantSelection(ret.query[1], sessions[ret.session_id],
                          GivenMax(ret.max_messages), ret.val)

\* What holds instead of C9: the same selection for the number the code
\* uses, which is max_dialog_history also when the caller passes 0.
C9_SelectionOfEffectiveMax ==
    QueriedKnownSession =>
        RelevantSelection(ret.query[1], sessions[ret.session_id],
                          IF Falsy(ret.max_messages)
                          THEN settings_max_dialog_history ELSE ret.max_messages[1],
                          ret.val)

\* C10: with a query, every system message of the session is in the result
\* whenever the session holds at most max_messages system messages.
C10_SystemMessagesIncluded ==
    QueriedKnownSession =>
        LET msgs == sessions[ret.session_id]
            system == {i \in 1..Len(msgs) : msgs[i].role = "system"}
        IN  Cardinality(system) <= GivenMax(ret.max_messages) =>
                \A i \in system : \E k \in 1..Len(ret.val) : ret.val[k] = msgs[i]

\* the last operation read a known session without a query
UnqueriedKnownSession ==
    /\ ret.op = "get_context_messages"
    /\ ret.query = None
    /\ ret.session_id \in DOMAIN sessions

\* the last n elements of a sequence, all of them when it has fewer
LastOf(seq, n) == SubSeq(seq, Len(seq) - Min(n, Len(seq)) + 1, Len(seq))

\* C11: without a query, get_context_messages on a known session returns the
\* last n stored messages in stored order for every supplied max_messages n;
\* max_dialog_history is n only when max_messages is not supplied.
C11_LastMessages ==
    UnqueriedKnownSession =>
        ret.val = LastOf(sessions[ret.session_id], GivenMax(ret.max_messages))

\* What holds instead of C11: the last n messages for every n >= 1, and for
\* an omitted max_messages the last max_dialog_history ones.
C11_LastMessagesOfPositiveMax ==
    (UnqueriedKnownSession /\ ~(ret.max_messages = Some(0))) =>
        ret.val = LastOf(sessions[ret.session_id], GivenMax(ret.max_messages))

\* the last operation was a lookup
LookupOps == {"get_context_messages", "get_session_summary", "get_chat_history"}

\* the result r of a lookup is the empty one of its operation
EmptyResult(r) ==
    CASE r.op = "get_context_messages" -> r.val = <<>>
      [] r.op = "get_session_summary" -> DOMAIN r.val = {}
      [] r.op = "get_chat_history" -> r.status = 200 /\ r.val.messages = <<>>

\* C12: a lookup on an unknown session id (get_context_messages with or
\* without a query, get_session_summary, the chat history endpoint) returns
\* an empty result, does not raise and does not register the session.
C12_UnknownSessionLookup ==
    [][(ret'.op \in LookupOps /\ ret'.session_id \notin DOMAIN sessions) =>
          /\ EmptyResult(ret')
          /\ sessions' = sessions]_vars

\* C12 witness: a summary of an unknown session was asked for while the
\* store holds another session with messages.
C12_Witness ==
    /\ ret.op = "get_session_summary"
    /\ ret.session_id \notin DOMAIN sessions
    /\ \E sid \in DOMAIN sessions : Len(sessions[sid]) > 0

\* ------------------------------------------------------------------------
\* Claims about the life of a session (checked under Spec)
\* ------------------------------------------------------------------------
RECURSIVE IsSubsequence(_, _)
\* a can be obtained from b by removing elements
IsSubsequence(a, b) ==
    IF a = <<>> THEN TRUE
    ELSE IF b = <<>> THEN FALSE
    ELSE IF Head(a) = Head(b) THEN IsSubsequence(Tail(a), Tail(b))
    ELSE IsSubsequence(a, Tail(b))

\* the number of positions of the list msgs that hold the message m
Occurrences(msgs, m) == Cardinality({i \in 1..Len(msgs) : msgs[i] = m})

\* C26: under any interleaving of concurrent add_message /
\* add_dialog_context calls on one session (a call has no suspension point,
\* so the calls run one after the other in any order), no appended
\* non-expired message is lost: the session holds every such message exactly
\* once.
C26_NoLostAppend ==
    \A sid \in DOMAIN appended :
        \A k \in 1..Len(appended[sid]) :
            Retained(appended[sid][k], now) =>
                /\ sid \in DOMAIN sessions
                /\ Occurrences(sessions[sid], appended[sid][k]) = 1

\* C26 witness: an add_message and an add_dialog_context on one session have
\* both completed at a time when both messages are unexpired.
C26_Witness ==
    /\ ret.op = "add_dialog_context"
    /\ \E sid \in DOMAIN appended :
          /\ Len(appended[sid]) = 2
          /\ appended[sid][1].role = "user"
          /\ appended[sid][1].timestamp = 0
          /\ now = TickLen
          /\ \A k \in 1..2 : Retained(appended[sid][k], now)

\* C13: a registered session id stays in the store until clear_session
\* deletes it, and every session's list is at all times an order-preserving
\* subsequence of the messages appended to it.
C13_SessionLifecycle ==
    /\ [](\A sid \in DOMAIN sessions :
            IsSubsequence(sessions[sid], MessagesOf(appended, sid)))
    /\ [][\A sid \in DOMAIN sessions :
            \/ sid \in DOMAIN sessions'
            \/ ret'.op = "clear_session" /\ ret'.arg = sid]_vars

\* C13 witness: a session has lost an appended message to pruning and still
\* holds a later one.
C13_Witness ==
    \E sid \in DOMAIN sessions :
        /\ Len(sessions[sid]) >= 1
        /\ Len(MessagesOf(appended, sid)) > Len(sessions[sid])

\* ------------------------------------------------------------------------
\* Further claims about the chunker (checked under SpecChunker)
\* ------------------------------------------------------------------------
\* the one chunk of an empty file: its single empty line
EmptyFileChunk(lang) ==
    [id |-> BaseId(FilePath, 0, 0), content |-> <<>>, file_path |-> FilePath,
     start_line |-> 0, end_line |-> 0, language |-> lang,
     token_count |-> 0, line_count |-> 1]

\* C14: chunk_code("", path, lang) does not raise and returns zero or one
\* chunk, the same result on every call: for every max_chunk_size it is the
\* one chunk of the empty line 0.
C14_EmptyCode ==
    (cpc = "done" /\ code = <<>>) =>
        /\ Len(out_chunks) <= 1
        /\ out_chunks = <<EmptyFileChunk(language)>>

\* C14 witness: chunk_code has run on the empty string with the smallest
\* explicit max_chunk_size.
C14_Witness ==
    /\ cpc = "done"
    /\ code = <<>>
    /\ max_arg = Some(1)
    /\ Len(out_chunks) = 1

\* C15: the overlap pass returns as many chunks as it was given, in the same
\* order: chunk 0 unchanged, every later chunk with the end_line, file_path
\* and language of the original and the original's id followed by "_overlap".
C15_OverlapKeepsChunks ==
    cpc = "done" =>
        /\ Len(out_chunks) = Len(pre_chunks)
        /\ Len(pre_chunks) >= 1 => out_chunks[1] = pre_chunks[1]
        /\ \A i \in 2..Len(pre_chunks) :
              /\ out_chunks[i].end_line = pre_chunks[i].end_line
              /\ out_chunks[i].file_path = pre_chunks[i].file_path
              /\ out_chunks[i].language = pre_chunks[i].language
              /\ out_chunks[i].id = Append(pre_chunks[i].id, "_overlap")

\* C15 witness: the overlap pass was given three or more chunks and moved
\* the start of a later one.
C15_Witness ==
    /\ cpc = "done"
    /\ Len(pre_chunks) >= 3
    /\ out_chunks[3].start_line # pre_chunks[3].start_line
    /\ out_chunks[3].content # pre_chunks[3].content

\* C19: within one chunk_code result no two chunks have the same id, the
\* sub-chunks of a token-split segment included.
C19_DistinctIds ==
    cpc = "done" =>
        \A i, j \in 1..Len(out_chunks) :
            i # j => out_chunks[i].id # out_chunks[j].id

\* ------------------------------------------------------------------------
\* Further claims about the ranking (checked under SpecRank)
\* ------------------------------------------------------------------------
\* the positions of the input chunks whose similarity to the query of the
\* last find_similar_chunks call is at least t
ScoringAtLeast(t) ==
    {k \in 1..Len(chunks) :
        cosine_similarity(model_encode(ret.query), chunks[k].embedding[1]) >= t}

\* the last find_similar_chunks call returned, up to the top_k cut, exactly
\* the chunks scoring at least t
KeepsExactly(t) ==
    /\ Len(ret.val) = Min(ret.top_k, Cardinality(ScoringAtLeast(t)))
    /\ \A i \in 1..Len(ret.val) :
          \E k \in ScoringAtLeast(t) : chunks[k] = ret.val[i].chunk

\* C20: for every threshold the caller supplies, 0 included,
\* find_similar_chunks keeps (before the top_k cut) exactly the chunks whose
\* score is >= that value; similarity_threshold is used only when no
\* threshold is supplied.
C20_SuppliedThreshold ==
    ret.op = "find_similar_chunks" => KeepsExactly(GivenThreshold(ret.threshold))

\* What holds instead of C20: the filter uses similarity_threshold also when
\* the caller supplies 0.
C20_EffectiveThreshold ==
    ret.op = "find_similar_chunks" =>
        KeepsExactly(IF Falsy(ret.threshold)
                     THEN settings_similarity_threshold ELSE ret.threshold[1])

\* the similarity of input chunk k to the query of the last
\* find_similar_chunks call
ScoreAt(k) == cosine_similarity(model_encode(ret.query), chunks[k].embedding[1])

\* input position a comes before input position b in the ranking: a higher
\* score, or the same score and an earlier position
RankedBefore(a, b) ==
    \/ ScoreAt(a) > ScoreAt(b)
    \/ ScoreAt(a) = ScoreAt(b) /\ a < b

\* the input positions scoring at least t, by descending score, positions of
\* equal score in input order
RankedPositions(t) ==
    LET S == ScoringAtLeast(t)
    IN  [p \in 1..Cardinality(S) |->
            CHOOSE k \in S : Cardinality({j \in S : RankedBefore(j, k)}) = p - 1]

\* the last find_similar_chunks call returned the first top_k of the input
\* chunks scoring at least t, ranked, each with its score
StableTopK(t) ==
    LET R == RankedPositions(t)
    IN  ret.val = [i \in 1..Min(ret.top_k, Len(R)) |->
                      [chunk |-> chunks[R[i]], score |-> ScoreAt(R[i])]]

\* C22: in the output of find_similar_chunks, chunks of equal score appear in
\* their relative input order: the output is the first top_k elements of the
\* stable descending sort of the input by score, filtered to
\* score >= threshold (the threshold supplied, or similarity_threshold when
\* none is).
C22_StableTopK ==
    ret.op = "find_similar_chunks" => StableTopK(GivenThreshold(ret.threshold))

\* What holds instead of C22: the same ranking, filtered by
\* similarity_threshold also when the caller supplies 0.
C22_StableTopKOfEffectiveThreshold ==
    ret.op = "find_similar_chunks" =>
        StableTopK(IF Falsy(ret.threshold)
                   THEN settings_similarity_threshold ELSE ret.threshold[1])

\* a call returned two chunks of equal score, in input order, while a third
\* input chunk of that score was cut off
C22_TieReached ==
    /\ ret.op = "find_similar_chunks"
    /\ Len(ret.val) = 2
    /\ ret.val[1].score = ret.val[2].score
    /\ ret.val[1].chunk # ret.val[2].chunk
    /\ Cardinality({k \in 1..Len(chunks) : ScoreAt(k) = ret.val[1].score}) = 3

\* a step is a call of find_similar_chunks
FindSimilarChunksStep == ret.op = "init" /\ ret'.op = "find_similar_chunks"

\* C23: after find_similar_chunks returns on a non-empty chunk list every
\* input chunk has an embedding: a chunk that had one keeps it, any other
\* holds the embedding of its content, and no other field of any chunk
\* changes; with an empty chunk list no embedding (not even the query's) is
\* computed and the cache is unchanged.
C23_EmbeddingsStored ==
    [][FindSimilarChunksStep =>
        /\ Len(chunks') = Len(chunks)
        /\ \A k \in 1..Len(chunks) :
              /\ chunks'[k].id = chunks[k].id
              /\ chunks'[k].content = chunks[k].content
              /\ DOMAIN chunks'[k] = DOMAIN chunks[k]
              /\ chunks'[k].embedding # None
              /\ chunks[k].embedding # None =>
                    chunks'[k].embedding = chunks[k].embedding
              /\ chunks[k].embedding = None =>
                    chunks'[k].embedding = Some(model_encode(chunks[k].content))
        /\ Len(chunks) = 0 => cm_cache' = cm_cache /\ ret'.val = <<>>
        /\ Len(chunks) > 0 =>
              DOMAIN cm_cache' = DOMAIN cm_cache \cup {ret'.query} \cup
                  {chunks[k].content : k \in {j \in 1..Len(chunks) :
                                                 chunks[j].embedding = None}}
    ]_vars

\* C23 witness: a call returned on a list holding a chunk whose embedding it
\* kept (not the embedding of its content) and a chunk of the same content
\* whose embedding it computed.
C23_Witness ==
    /\ ret.op = "find_similar_chunks"
    /\ \E a, b \in 1..Len(chunks) :
          /\ chunks[a].content = chunks[b].content
          /\ chunks[a].embedding # Some(model_encode(chunks[a].content))
          /\ chunks[b].embedding = Some(model_encode(chunks[b].content))

\* ------------------------------------------------------------------------
\* Claims about reads and expiry (checked under SpecExpiry)
\* ------------------------------------------------------------------------
\* a step is a read of the session store
ReadStep ==
    /\ ret'.op \in {"get_context_messages", "get_session_summary"}
    /\ now' = now
    /\ next_msg' = next_msg

\* the value a read returned shows every message of the list msgs
ShowsAll(r, msgs) ==
    IF r.op = "get_session_summary"
    THEN /\ r.val.message_count = Len(msgs)
         /\ r.val.roles = {msgs[i].role : i \in 1..Len(msgs)}
         /\ Len(msgs) > 0 => r.val.last_activity = Some(msgs[Len(msgs)].timestamp)
    ELSE /\ Len(r.val) = Len(msgs)
         /\ \A i \in 1..Len(msgs) : \E k \in 1..Len(r.val) : r.val[k] = msgs[i]

\* C24: get_context_messages (with or without query) and
\* get_session_summary leave the session store unchanged; pruning runs only
\* inside add_message, so an expired non-system message stays stored and
\* visible to reads until the next add_message on its session.
C24_ReadsKeepStore ==
    [][/\ ReadStep =>
            /\ sessions' = sessions
            /\ ret'.session_id \in DOMAIN sessions =>
                  ShowsAll(ret', sessions[ret'.session_id])
       /\ sessions' # sessions => AddStep
       /\ AddStep =>
            \A i \in 1..Len(sessions'[ret'.arg.session_id]) :
                Retained(sessions'[ret'.arg.session_id][i], now)
      ]_vars

\* C24 witness: a query read returned an expired non-system message, which is
\* still stored.
C24_Witness ==
    /\ ret.op = "get_context_messages"
    /\ ret.query # None
    /\ \E k \in 1..Len(ret.val) :
          /\ ~Retained(ret.val[k], ret.at)
          /\ \E i \in 1..Len(sessions["s1"]) : sessions["s1"][i] = ret.val[k]

\* the ids of the input chunks are pairwise distinct
DistinctInputIds ==
    \A a, b \in 1..Len(chunks) : a # b => chunks[a].id # chunks[b].id

\* C18: for an input of pairwise distinct chunk ids and max_chunks >= 0,
\* get_relevant_context returns the same chunk sequence with a session id as
\* with none, whatever the session holds.
C18_SessionMakesNoDifference ==
    (ret.op = "get_relevant_context" /\ DistinctInputIds) =>
        ret.val = get_relevant_context(sessions, cm_cache, dm_cache, ret.query,
                                       chunks, None, ret.max_chunks).val

\* C18 witness: a call with a session whose messages refer to an input chunk
\* that the dialog-derived ranking returns and the code ranking, cut at
\* max_chunks, does not.
C18_Witness ==
    /\ ret.op = "get_relevant_context"
    /\ ret.session_id = Some("s1")
    /\ DistinctInputIds
    /\ Len(ret.val) = ret.max_chunks
    /\ Len(DialogRanking) > 0
    /\ \A i \in 1..Len(ret.val) : ret.val[i] # DialogRanking[1]

\* ------------------------------------------------------------------------
\* Claims about the embedding cache (checked under SpecEmbed)
\* ------------------------------------------------------------------------
\* caller p starts a get_embedding call in this step
StartsCall(p) == ecalls[p].pc # "encoding" /\ ecalls'[p] # ecalls[p]

\* C16: once get_embedding(t) has returned, the cache maps exactly the text
\* t to the returned vector; a later get_embedding(t) returns that vector
\* without invoking the model; no step removes or changes a cache entry.
C16_EmbeddingCache ==
    /\ [](\A p \in DOMAIN ecalls :
            ecalls[p].pc = "returned" =>
                /\ ecalls[p].text \in DOMAIN cm_cache
                /\ cm_cache[ecalls[p].text] = ecalls[p].val[1])
    /\ [][\A p \in DOMAIN ecalls :
            (StartsCall(p) /\ ecalls'[p].text \in DOMAIN cm_cache) =>
                /\ encodes' = encodes
                /\ ecalls'[p].pc = "returned"
                /\ ecalls'[p].val = Some(cm_cache[ecalls'[p].text])]_vars
    /\ [][\A t \in DOMAIN cm_cache :
            t \in DOMAIN cm_cache' /\ cm_cache'[t] = cm_cache[t]]_vars

\* C16 witness: one caller was served "t0" from the cache after the model
\* had encoded it once, while "t0 " and "t1" have entries of their own.
C16_Witness ==
    /\ DOMAIN ecalls = Callers
    /\ DOMAIN cm_cache = EmbedTexts
    /\ encodes["t0"] = 1
    /\ \A p \in Callers : ecalls[p].pc = "returned" /\ ecalls[p].text = "t0"

\* C27: under any interleaving of concurrent get_embedding calls on one
\* EmbeddingService (the only suspension point being the dispatch of the
\* model call to the worker), the embedding model is invoked at most once
\* for each distinct text.
C27_EncodedAtMostOnce ==
    \A t \in DOMAIN encodes : encodes[t] <= 1

\* What holds instead of C27: the model is invoked for a text only while
\* the text has no cache entry, so at most once per call that started
\* before the first call for that text stored its vector.
C27_EncodedOnlyWhileUncached ==
    [][\A t \in DOMAIN encodes :
          encodes'[t] > encodes[t] =>
              /\ t \notin DOMAIN cm_cache
              /\ encodes'[t] = encodes[t] + 1
              /\ encodes'[t] <= Cardinality(Callers)]_vars

\* two overlapping calls for "t0" have both invoked the model
C27_BothEncoded ==
    /\ encodes["t0"] = 2
    /\ \A p \in Callers : ecalls[p].pc = "encoding" /\ ecalls[p].text = "t0"

\* ------------------------------------------------------------------------
\* Claims about the LLM client (checked under SpecLlm)
\* ------------------------------------------------------------------------
\* C17: every generate_completion / generate_chat_completion call sends
\* exactly one request; when the backend is unreachable or answers with a
\* non-success status the failure is raised and the request is not sent again.
C17_OneRequestPerCall ==
    /\ [](Len(requests) = llm.call)
    /\ []((llm.pc \in {"returned", "raised"} /\ llm.outcome \in HttpErrors) =>
            llm.pc = "raised")
    /\ [][Len(requests') > Len(requests) =>
            /\ llm'.call = llm.call + 1
            /\ llm'.pc = "awaiting"
            /\ requests' = Append(requests, requests'[Len(requests')])]_vars

\* C17 witness: the second call failed on a non-success status, and two
\* requests were sent in all, one per call.
C17_Witness ==
    /\ llm.pc = "raised"
    /\ llm.outcome = "bad_status"
    /\ llm.call = 2
    /\ Len(requests) = 2

\* ------------------------------------------------------------------------
\* Claims about backend failures (checked under SpecBackends)
\* ------------------------------------------------------------------------
\* the last LLM-client call has ended and its request failed
BackendFailed == llm.pc \in {"returned", "raised"} /\ llm.outcome \in HttpErrors

\* the caller of the last LLM-client call was told of a failure: an
\* exception, or the health probe's False
FailureSurfaced ==
    \/ llm.pc = "raised"
    \/ llm.op = "health_check" /\ llm.val = FALSE

\* a get_embedding call that has returned returned a stored vector of the
\* model; one whose model call failed has raised
EmbeddingFailureSurfaced ==
    \A p \in DOMAIN ecalls :
        /\ ecalls[p].pc = "returned" =>
              ecalls[p].val = Some(model_encode(ecalls[p].text))
        /\ ecalls[p].pc = "raised" => ecalls[p].val = None

\* C25: no failure of a backend call is turned into a normal result: every
\* LLM-client operation (generate_completion, generate_chat_completion,
\* list_models, health_check) and every embedding call surfaces a backend
\* failure to its caller as a failure.
C25_FailuresSurface ==
    /\ BackendFailed => FailureSurfaced
    /\ EmbeddingFailureSurfaced

\* What holds instead of C25: every operation but list_models surfaces a
\* backend failure.
C25_FailuresSurfaceButListModels ==
    /\ (BackendFailed /\ llm.op # "list_models") => FailureSurfaced
    /\ EmbeddingFailureSurfaced

\* a list_models call on an unreachable Ollama backend has returned []
C25_ListModelsSwallows ==
    /\ llm.op = "list_models"
    /\ llm.pc = "returned"
    /\ llm.outcome = "unreachable"
    /\ llm.val = <<>>

\* ------------------------------------------------------------------------
\* Claims about chat_message (checked under SpecChat)
\* ------------------------------------------------------------------------
\* the number of messages logged as appended, over all sessions
RECURSIVE TotalLogged(_, _)
TotalLogged(log, sids) ==
    IF sids = {} THEN 0
    ELSE LET sid == CHOOSE x \in sids : TRUE
         IN  Len(log[sid]) + TotalLogged(log, sids \ {sid})

\* the step of request h that recorded its exchange appended to the
\* session, behind the messages the pruning keeps, the user message and
\* then the assistant reply, both with the ids of the request's chunks
RecordsExchange(h) ==
    LET sid == chat[h].session_id
        kept == RetainedOf(MessagesOf(sessions, sid), now)
        after == MessagesOf(sessions', sid)
        ids == ContextChunkIds(chat[h].request)
    IN  /\ Len(after) = Len(kept) + 2
        /\ SubSeq(after, 1, Len(kept)) = kept
        /\ after[Len(kept) + 1].role = "user"
        /\ after[Len(kept) + 1].content = chat[h].request.message
        /\ after[Len(kept) + 1].context_chunks = ids
        /\ after[Len(kept) + 2].role = "assistant"
        /\ after[Len(kept) + 2].content = chat'[h].response
        /\ after[Len(kept) + 2].context_chunks = ids
        /\ \A other \in (DOMAIN sessions \cup DOMAIN sessions') \ {sid} :
              MessagesOf(sessions', other) = MessagesOf(sessions, other)

Borrowed(i) == Max(1, Len(Split(pre_chunks[i - 1].content)) \div 4)

\* chunk i of the output: the last Borrowed(i) lines of the pre-overlap chunk
\* i-1, a newline, the pre-overlap content of chunk i; start_line moved back
OverlapContent(i) ==
    LET prev_lines == Split(pre_chunks[i - 1].content)
        k == Borrowed(i)
    IN  /\ out_chunks[i].content =
              Join(SubSeq(prev_lines, Len(prev_lines) - k + 1, Len(prev_lines)))
              \o <<NL>> \o pre_chunks[i].content
        /\ out_chunks[i].start_line = pre_chunks[i - 1].end_line - k + 1

\* the line range of chunk i of the output has as many lines as its content
RangeCoversContent(i) ==
    out_chunks[i].end_line - out_chunks[i].start_line + 1
        = Len(Split(out_chunks[i].content))

\* C21: every chunk i >= 1 of the overlap pass output is the last k lines of
\* the pre-overlap chunk i-1, a newline and the pre-overlap content of chunk
\* i, k = max(1, lines of chunk i-1 div 4), with start_line = end_line of
\* chunk i-1 - k + 1, so that its line range has as many lines as its content.
C21_OverlapContent ==
    cpc = "done" =>
        \A i \in 2..Len(out_chunks) : OverlapContent(i) /\ RangeCoversContent(i)

\* What holds instead of C21: the content and start_line are as stated; the
\* line range need not have as many lines as the content.
C21_ContentAndStartLine ==
    cpc = "done" => \A i \in 2..Len(out_chunks) : OverlapContent(i)

\* the number of lines of the code: one more than it has newlines
LineCount == Cardinality(NLPos(code)) + 1

\* the 0-based numbers of the lines that match a pattern of the language
MatchingLines ==
    {i \in 0..(LineCount - 1) : Matches(Split(code)[i + 1], language)}

\* C29: find_semantic_boundaries returns a strictly ascending list whose
\* first element is 0 and last element is len(lines), every element in
\* [0, len(lines)]; a single-line file yields [0, 1] and a file without a
\* matching line yields [0, len(lines)].
C29_Boundaries ==
    cpc = "done" =>
        /\ \A i, j \in 1..Len(boundaries) : i < j => boundaries[i] < boundaries[j]
        /\ Len(boundaries) >= 2
        /\ boundaries[1] = 0
        /\ boundaries[Len(boundaries)] = LineCount
        /\ \A i \in 1..Len(boundaries) : boundaries[i] \in 0..LineCount
        /\ LineCount = 1 => boundaries = <<0, 1>>
        /\ MatchingLines = {} => boundaries = <<0, LineCount>>

\* C29 witness: the first line of a file of three lines matches a pattern,
\* as do the other two.
C29_Witness ==
    /\ cpc = "done"
    /\ LineCount = 3
    /\ MatchingLines = {0, 1, 2}
    /\ Len(boundaries) = 4

\* the max_chunk_size chunk_code works with
EffectiveMax ==
    IF max_arg = None \/ max_arg[1] = 0 THEN settings_max_chunk_size ELSE max_arg[1]

RECURSIVE TokensOfAll(_)
\* the token sequences of a list of texts, concatenated
TokensOfAll(texts) ==
    IF Len(texts) = 0 THEN <<>>
    ELSE Encode(Head(texts)) \o TokensOfAll(Tail(texts))

\* the texts cut a text of more than m tokens into consecutive pieces of m
\* tokens, the last one shorter or equal and not empty
CutsIntoPieces(texts, text, m) ==
    /\ Len(texts) >= 2
    /\ \A k \in 1..(Len(texts) - 1) : Len(Encode(texts[k])) = m
    /\ Len(Encode(texts[Len(texts)])) \in 1..m
    /\ TokensOfAll(texts) = Encode(text)

RECURSIVE ChunksOfSegments(_)
\* the chunks of the loop's iterations, in order
ChunksOfSegments(ss) ==
    IF Len(ss) = 0 THEN <<>> ELSE Head(ss).chunks \o ChunksOfSegments(Tail(ss))

\* C30: split_by_tokens(text, max_tokens), max_tokens >= 1, cuts the token
\* sequence of text into consecutive pieces of exactly max_tokens tokens
\* (the last possibly shorter, none empty) whose concatenation is the
\* original token sequence, and chunk_code emits one chunk per piece of an
\* oversized segment.
C30_SplitByTokens ==
    cpc = "done" =>
        /\ pre_chunks = ChunksOfSegments(segs)
        /\ \A i \in 1..Len(segs) :
             Len(Encode(segs[i].content)) > EffectiveMax =>
                 CutsIntoPieces([k \in 1..Len(segs[i].chunks) |->
                                    segs[i].chunks[k].content],
                                segs[i].content, EffectiveMax)

\* C30 witness: a segment of several lines was cut into three or more
\* pieces of two tokens, the last piece of one token.
C30_Witness ==
    /\ cpc = "done"
    /\ max_arg = Some(2)
    /\ \E i \in 1..Len(segs) :
          /\ Len(segs[i].chunks) >= 3
          /\ NLPos(segs[i].content) # {}
          /\ Len(Encode(segs[i].chunks[Len(segs[i].chunks)].content)) = 1

====
